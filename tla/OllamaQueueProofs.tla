------------------------ MODULE OllamaQueueProofs ------------------------
(***************************************************************************)
(* QueueInv is an invariant of the inference queue, for any number of       *)
(* requests and containers; the safety properties that follow from it.      *)
(***************************************************************************)
EXTENDS OllamaQueue, FiniteSetTheorems, SequenceTheorems, TLAPS

-----------------------------------------------------------------------------
(* What the operations on the queue return. *)

\* The range of a sequence is finite and no larger than the sequence.
LEMMA QueueRange ==
    ASSUME NEW T, NEW s \in Seq(T)
    PROVE  /\ Range(s) \subseteq T
           /\ IsFiniteSet(Range(s))
           /\ Cardinality(Range(s)) \in Nat
           /\ Cardinality(Range(s)) <= Len(s)
<1>1. Len(s) \in Nat /\ DOMAIN s = 1..Len(s) /\ s \in [1..Len(s) -> T]
    BY LenProperties
<1>2. Range(s) \subseteq T
    BY <1>1 DEF Range
<1>3. s \in Surjection(1..Len(s), Range(s))
    BY <1>1 DEF Surjection, Range
<1>4. IsFiniteSet(1..Len(s)) /\ Cardinality(1..Len(s)) = Len(s)
    BY <1>1, FS_Interval
<1>5. IsFiniteSet(Range(s)) /\ Cardinality(Range(s)) <= Len(s)
    BY <1>3, <1>4, FS_Surjection
<1>. QED  BY <1>2, <1>5, FS_CardinalityType

\* A listing of a finite set is a sequence of distinct elements of it.
LEMMA Listing ==
    ASSUME NEW S, IsFiniteSet(S), NEW t \in SetToSeqs(S)
    PROVE  /\ t \in Seq(S)
           /\ Len(t) = Cardinality(S)
           /\ Range(t) \subseteq S
           /\ Distinct(t)
<1>1. Cardinality(S) \in Nat
    BY FS_CardinalityType
<1>2. /\ t \in [1..Cardinality(S) -> S]
      /\ \A i, j \in 1..Cardinality(S) : i # j => t[i] # t[j]
    BY DEF SetToSeqs
<1>3. t \in Seq(S) /\ Len(t) = Cardinality(S)
    BY <1>1, <1>2
<1>. QED  BY <1>2, <1>3 DEF Range, Distinct

\* Without(s, R) keeps nothing of R and adds nothing.
LEMMA WithoutKeeps ==
    ASSUME NEW T, NEW s \in Seq(T), NEW R, NEW t \in Without(s, R)
    PROVE  /\ t \in Seq(T)
           /\ Len(t) <= Len(s)
           /\ Range(t) \subseteq Range(s) \ R
           /\ Distinct(t)
<1>. DEFINE S == Range(s) \ R
<1>1. /\ Range(s) \subseteq T
      /\ IsFiniteSet(Range(s))
      /\ Cardinality(Range(s)) \in Nat
      /\ Cardinality(Range(s)) <= Len(s)
    BY QueueRange
<1>2. IsFiniteSet(S) /\ Cardinality(S) <= Cardinality(Range(s))
    BY <1>1, FS_Subset
<1>3. t \in SetToSeqs(S)
    BY DEF Without
<1>4. t \in Seq(S) /\ Len(t) = Cardinality(S) /\ Range(t) \subseteq S /\ Distinct(t)
    <2>. HIDE DEF S
    <2>. QED  BY <1>2, <1>3, Listing
<1>5. t \in Seq(T)
    BY <1>1, <1>4, SeqMonotonic
<1>6. Len(t) <= Len(s)
    BY <1>1, <1>2, <1>4, <1>5, LenProperties, FS_CardinalityType
<1>. QED  BY <1>4, <1>5, <1>6

\* The stable sort has the same elements, each once.
LEMMA SortedKeeps ==
    ASSUME NEW T, NEW s \in Seq(T), NEW b, NEW t \in Sorted(s, b)
    PROVE  /\ t \in Seq(T)
           /\ Len(t) <= Len(s)
           /\ Range(t) \subseteq Range(s)
           /\ Distinct(t)
<1>1. /\ Range(s) \subseteq T
      /\ IsFiniteSet(Range(s))
      /\ Cardinality(Range(s)) <= Len(s)
    BY QueueRange
<1>2. t \in SetToSeqs(Range(s))
    BY DEF Sorted
<1>3. /\ t \in Seq(Range(s))
      /\ Len(t) = Cardinality(Range(s))
      /\ Range(t) \subseteq Range(s)
      /\ Distinct(t)
    BY <1>1, <1>2, Listing
<1>. QED  BY <1>1, <1>3, SeqMonotonic

\* Appending adds the new element and one to the length.
LEMMA Appended ==
    ASSUME NEW T, NEW s \in Seq(T), NEW x \in T
    PROVE  /\ Append(s, x) \in Seq(T)
           /\ Len(Append(s, x)) = Len(s) + 1
           /\ Range(Append(s, x)) \subseteq Range(s) \cup {x}
BY AppendProperties, LenProperties DEF Range

\* What follows an element in a sequence of distinct elements does not contain it.
LEMMA Dropped ==
    ASSUME NEW T, NEW s \in Seq(T), Distinct(s), NEW i \in DOMAIN s
    PROVE  LET t == SubSeq(s, i + 1, Len(s)) IN
           /\ t \in Seq(T)
           /\ Len(t) <= Len(s)
           /\ Range(t) \subseteq Range(s) \ {s[i]}
           /\ Distinct(t)
<1>. DEFINE t == SubSeq(s, i + 1, Len(s))
<1>1. Len(s) \in Nat /\ DOMAIN s = 1..Len(s) /\ \A k \in 1..Len(s) : s[k] \in T
    BY LenProperties, ElementOfSeq
<1>2. /\ t \in Seq(T)
      /\ Len(t) = Len(s) - i
      /\ \A k \in 1..Len(t) : t[k] = s[i + k]
    BY <1>1, SubSeqProperties
<1>3. DOMAIN t = 1..Len(t)
    BY <1>2, LenProperties
<1>4. \A k \in DOMAIN t : i + k \in DOMAIN s /\ i + k # i
    BY <1>1, <1>2, <1>3
<1>5. Range(t) \subseteq Range(s) \ {s[i]}
    BY <1>1, <1>2, <1>3, <1>4 DEF Range, Distinct
<1>6. Distinct(t)
    <2>. SUFFICES ASSUME NEW k \in DOMAIN t, NEW l \in DOMAIN t, k # l
                  PROVE  t[k] # t[l]
        BY DEF Distinct
    <2>1. t[k] = s[i + k] /\ t[l] = s[i + l]
        BY <1>2, <1>3
    <2>2. i + k \in DOMAIN s /\ i + l \in DOMAIN s /\ i + k # i + l
        BY <1>1, <1>2, <1>3, <1>4
    <2>. QED  BY <2>1, <2>2 DEF Distinct
<1>7. Len(t) <= Len(s)
    <2>. HIDE DEF t
    <2>. QED  BY <1>1, <1>2
<1>. QED  BY <1>2, <1>5, <1>6, <1>7

\* A sequence of one element.
LEMMA OneElement ==
    ASSUME NEW T, NEW s \in Seq(T), s # <<>>, Len(s) <= 1
    PROVE  \E x \in T : s = <<x>>
<1>1. Len(s) \in Nat /\ Len(s) # 0
    BY EmptySeq, LenProperties
<1>2. Len(s) = 1
    BY <1>1
<1>3. s[1] \in T
    BY <1>2, ElementOfSeq
<1>4. s = <<s[1]>>
    BY <1>2, <1>3, LenProperties
<1>. QED  BY <1>3, <1>4

\* So it does where the elements may be equal.
LEMMA Shortened ==
    ASSUME NEW T, NEW s \in Seq(T), NEW i \in DOMAIN s
    PROVE  SubSeq(s, i + 1, Len(s)) \in Seq(T) /\ Len(SubSeq(s, i + 1, Len(s))) <= Len(s)
<1>1. Len(s) \in Nat /\ i \in 1..Len(s) /\ \A k \in 1..Len(s) : s[k] \in T
    BY LenProperties, ElementOfSeq
<1>2. /\ SubSeq(s, i + 1, Len(s)) \in Seq(T)
      /\ Len(SubSeq(s, i + 1, Len(s))) = Len(s) - i
    BY <1>1, SubSeqProperties
<1>3. Len(s) - i <= Len(s)
    BY <1>1
<1>. QED  BY <1>2, <1>3

-----------------------------------------------------------------------------
(* Type correctness. *)

\* The types hold at the start.
LEMMA InitTypeOK == Init => TypeOK
<1>. SUFFICES ASSUME Init PROVE TypeOK
    OBVIOUS
<1>1. QueueOK
    BY OllamaAssumption, EmptySeq DEF Init, QueueOK
<1>2. EntriesOK
    BY EmptySeq DEF Init, EntriesOK
<1>3. ControlOK
    BY DEF Init, ControlOK, Idle, HandlerLabels, ProcLabels
<1>4. charged \subseteq Requests /\ arrived \in Seq(Requests) /\ repriced \subseteq Requests
    BY EmptySeq DEF Init
<1>. QED  BY <1>1, <1>2, <1>3, <1>4 DEF TypeOK

\* A standing bid or the default bid is a number.
LEMMA StandingBidType ==
    ASSUME TypeOK, NEW c \in Containers
    PROVE  StandingBid(c) \in Nat
BY OllamaAssumption DEF TypeOK, QueueOK, StandingBid

\* Cancelling contexts keeps their type.
LEMMA CancelType ==
    ASSUME TypeOK, NEW R
    PROVE  Cancel(R) \in [Requests -> {"live", "cancelled", "gone"}]
BY DEF TypeOK, EntriesOK, Cancel

\* Answering entries keeps the types of what belongs to them.
LEMMA AnswerType ==
    ASSUME TypeOK, NEW rs, NEW R, Answer(rs, R), UNCHANGED bid
    PROVE  EntriesOK'
<1>1. ctx' \in [Requests -> {"live", "cancelled", "gone"}]
    BY CancelType DEF Answer
<1>2. cancelled' \in [Requests -> BOOLEAN]
    BY DEF TypeOK, EntriesOK, Answer
<1>3. \A r \in Requests : Append(resultCh[r], "withdrawn") \in Seq(Results)
    BY AppendProperties DEF TypeOK, EntriesOK, Results
<1>4. resultCh' \in [Requests -> Seq(Results)]
    BY <1>3 DEF TypeOK, EntriesOK, Answer
<1>. QED  BY <1>1, <1>2, <1>4 DEF TypeOK, EntriesOK

\* The steps of HandleRequest keep the types.
LEMMA HandlerTypeOK ==
    ASSUME TypeOK, NEW r \in Requests, Handler(r)
    PROVE  TypeOK'
<1>. USE DEF TypeOK, HandlerAt
<1>1. CASE CheckOthers(r)
    BY <1>1 DEF CheckOthers, QueueOK, EntriesOK, ControlOK, HandlerLabels, Returned,
                queueVars, entryVars, auxVars
<1>2. CASE Enqueue(r)
    <2>1. CASE HasRoom(entries)
        <3>1. bid' \in [Requests -> Nat]
            <4>1. Owner[r] \in Containers
                BY OllamaAssumption
            <4>2. StandingBid(Owner[r]) \in Nat
                BY <4>1, StandingBidType
            <4>. QED  BY <1>2, <2>1, <4>2 DEF Enqueue, EntriesOK
        <3>2. EntriesOK'
            BY <1>2, <3>1 DEF Enqueue, EntriesOK
        <3>3. /\ Append(entries, r) \in Seq(Requests)
              /\ Len(Append(entries, r)) = Len(entries) + 1
            BY Appended DEF QueueOK
        <3>4. entries' \in Sorted(Append(entries, r), bid')
            BY <1>2, <2>1 DEF Enqueue
        <3>5. entries' \in Seq(Requests) /\ Len(entries') <= Len(entries) + 1
            BY <3>3, <3>4, SortedKeeps
        <3>6. QueueOK'
            BY <1>2, <2>1, <3>5, OllamaAssumption, LenProperties
            DEF Enqueue, QueueOK, HasRoom
        <3>7. ControlOK'
            BY <1>2, <2>1 DEF Enqueue, ControlOK, HandlerLabels
        <3>8. arrived' \in Seq(Requests)
            BY <1>2, <2>1, AppendProperties DEF Enqueue
        <3>. QED  BY <1>2, <3>2, <3>6, <3>7, <3>8 DEF Enqueue
    <2>2. CASE ~HasRoom(entries)
        BY <1>2, <2>2 DEF Enqueue, QueueOK, EntriesOK, ControlOK, HandlerLabels, Returned
    <2>. QED  BY <2>1, <2>2
<1>3. CASE Signal(r)
    BY <1>3 DEF Signal, QueueOK, EntriesOK, ControlOK, HandlerLabels, queueVars, entryVars, auxVars
<1>4. CASE Receive(r)
    BY <1>4 DEF Receive, QueueOK, EntriesOK, ControlOK, HandlerLabels, Returned,
                queueVars, entryVars, auxVars
<1>5. ASSUME NEW label \in {"expired", "left"}, GiveUp(r, label)
      PROVE  TypeOK'
    <2>1. EntriesOK'
        BY <1>5, CancelType DEF GiveUp, EntriesOK
    <2>. QED  BY <1>5, <2>1 DEF GiveUp, QueueOK, ControlOK, HandlerLabels, queueVars, auxVars
<1>6. CASE Expire(r) \/ Leave(r)
    BY <1>5, <1>6 DEF Expire, Leave
<1>7. CASE RemoveEntry(r)
    <2>1. entries' \in Seq(Requests) /\ Len(entries') <= Len(entries)
        BY <1>7, WithoutKeeps DEF RemoveEntry, QueueOK
    <2>2. QueueOK'
        BY <1>7, <2>1, OllamaAssumption, LenProperties DEF RemoveEntry, QueueOK
    <2>. QED  BY <1>7, <2>2 DEF RemoveEntry, EntriesOK, ControlOK, HandlerLabels, Returned,
                                 entryVars, auxVars
<1>. QED  BY <1>1, <1>2, <1>3, <1>4, <1>6, <1>7 DEF Handler

\* The steps of the processor keep the types.
LEMMA ProcessorTypeOK ==
    ASSUME TypeOK, Processor
    PROVE  TypeOK'
<1>. USE DEF TypeOK, ProcAt, ProcLabels
<1>1. CASE Wake
    BY <1>1 DEF Wake, QueueOK, EntriesOK, ControlOK, queueVars, entryVars, auxVars
<1>2. CASE Quit
    BY <1>2 DEF Quit, QueueOK, EntriesOK, ControlOK, queueVars, entryVars, auxVars
<1>3. CASE PopNext
    <2>1. CASE Pending = {}
        <3>1. entries' = <<>> /\ proc' = Idle
            BY <1>3, <2>1 DEF PopNext
        <3>2. QueueOK'
            BY <1>3, <3>1, OllamaAssumption, EmptySeq DEF PopNext, QueueOK
        <3>. QED  BY <1>3, <3>1, <3>2 DEF PopNext, EntriesOK, ControlOK, Idle, entryVars, auxVars
    <2>2. CASE Pending # {}
        <3>1. PICK i \in DOMAIN entries :
                  /\ entries' = SubSeq(entries, i + 1, Len(entries))
                  /\ proc' = [at |-> "taken", e |-> entries[i]]
            BY <1>3, <2>2 DEF PopNext
        <3>2. entries[i] \in Requests /\ entries[i] # None
            BY ElementOfSeq, LenProperties, OllamaAssumption DEF QueueOK
        <3>3. entries' \in Seq(Requests) /\ Len(entries') <= Len(entries)
            BY <3>1, Shortened DEF QueueOK
        <3>4. QueueOK'
            BY <1>3, <3>3, OllamaAssumption, LenProperties DEF PopNext, QueueOK
        <3>. QED  BY <1>3, <3>1, <3>2, <3>4 DEF PopNext, EntriesOK, ControlOK, entryVars, auxVars
    <2>. QED  BY <2>1, <2>2
<1>4. CASE Activate
    BY <1>4 DEF Activate, QueueOK, EntriesOK, ControlOK, entryVars, auxVars
<1>5. CASE Send
    BY <1>5 DEF Send, QueueOK, EntriesOK, ControlOK, queueVars, entryVars, auxVars
<1>6. CASE Run
    BY <1>6 DEF Run, QueueOK, EntriesOK, ControlOK, queueVars, entryVars, auxVars
<1>7. CASE Bill
    <2>1. charged' \subseteq Requests
        BY <1>7 DEF Bill, ControlOK
    <2>. QED  BY <1>7, <2>1 DEF Bill, QueueOK, EntriesOK, ControlOK, queueVars, entryVars, auxVars
<1>8. CASE Reply
    <2>1. PICK result \in Results : resultCh' = [resultCh EXCEPT ![proc.e] = Append(@, result)]
        BY <1>8 DEF Reply, Results
    <2>2. \A r \in Requests : Append(resultCh[r], result) \in Seq(Results)
        BY AppendProperties DEF EntriesOK
    <2>3. resultCh' \in [Requests -> Seq(Results)]
        BY <2>1, <2>2 DEF EntriesOK
    <2>. QED  BY <1>8, <2>3 DEF Reply, QueueOK, EntriesOK, ControlOK, queueVars, auxVars
<1>9. CASE Deactivate
    BY <1>9 DEF Deactivate, QueueOK, EntriesOK, ControlOK, entryVars, auxVars
<1>. QED  BY <1>1, <1>2, <1>3, <1>4, <1>5, <1>6, <1>7, <1>8, <1>9 DEF Processor

\* Dropping a container's entries keeps the types.
LEMMA DropAllType ==
    ASSUME TypeOK, NEW c \in Containers, DropAll(c), UNCHANGED bid
    PROVE  EntriesOK' /\ entries' \in Seq(Requests) /\ Len(entries') <= Len(entries)
BY AnswerType, WithoutKeeps DEF DropAll, TypeOK, QueueOK

\* Requests wait.
LEMMA PendingType ==
    ASSUME TypeOK
    PROVE  Pending \subseteq Requests
BY QueueRange DEF TypeOK, QueueOK, Pending

\* The calls from the API keep the types.
LEMMA ApiTypeOK ==
    ASSUME TypeOK, API
    PROVE  TypeOK'
<1>. USE DEF TypeOK
<1>1. ASSUME NEW c \in Containers, NEW b \in Bids, SetBid(c, b)
      PROVE  TypeOK'
    <2>1. b \in Nat
        BY OllamaAssumption
    <2>2. bid' \in [Requests -> Nat] /\ bids' \in [Containers -> Nat]
        BY <1>1, <2>1 DEF SetBid, QueueOK, EntriesOK
    <2>3. entries' \in Sorted(entries, bid')
        BY <1>1 DEF SetBid
    <2>4. entries' \in Seq(Requests) /\ Len(entries') <= Len(entries)
        BY <2>3, SortedKeeps DEF QueueOK
    <2>5. QueueOK'
        BY <1>1, <2>2, <2>4, OllamaAssumption, LenProperties DEF SetBid, QueueOK
    <2>6. repriced' \subseteq Requests
        BY <1>1, PendingType DEF SetBid
    <2>. QED  BY <1>1, <2>2, <2>5, <2>6 DEF SetBid, EntriesOK, ControlOK, controlVars
<1>2. ASSUME NEW c \in Containers, CancelEntry(c)
      PROVE  TypeOK'
    <2>1. PICK r \in Pending : Answer({r}, {}) /\ entries' \in Without(entries, {r})
        BY <1>2 DEF CancelEntry
    <2>2. EntriesOK'
        BY <1>2, <2>1, AnswerType DEF CancelEntry
    <2>3. entries' \in Seq(Requests) /\ Len(entries') <= Len(entries)
        BY <2>1, WithoutKeeps DEF QueueOK
    <2>4. QueueOK'
        BY <1>2, <2>3, OllamaAssumption, LenProperties DEF CancelEntry, QueueOK
    <2>. QED  BY <1>2, <2>2, <2>4 DEF CancelEntry, ControlOK, controlVars, auxVars
<1>3. ASSUME NEW c \in Containers, CancelAllPending(c) \/ RemoveContainer(c)
      PROVE  TypeOK'
    <2>1. EntriesOK' /\ entries' \in Seq(Requests) /\ Len(entries') <= Len(entries)
        BY <1>3, DropAllType DEF CancelAllPending, RemoveContainer
    <2>2. active' = active /\ bids' \in [Containers -> Nat]
        BY <1>3 DEF CancelAllPending, RemoveContainer, QueueOK
    <2>3. QueueOK'
        BY <2>1, <2>2, OllamaAssumption, LenProperties DEF QueueOK
    <2>. QED  BY <1>3, <2>1, <2>3
              DEF CancelAllPending, RemoveContainer, ControlOK, controlVars, auxVars
<1>4. CASE Stop
    BY <1>4 DEF Stop, QueueOK, EntriesOK, ControlOK, queueVars, entryVars, auxVars
<1>5. CASE Drain
    <2>1. EntriesOK'
        BY <1>5, AnswerType DEF Drain
    <2>2. QueueOK'
        BY <1>5, OllamaAssumption, EmptySeq DEF Drain, QueueOK
    <2>. QED  BY <1>5, <2>1, <2>2 DEF Drain, ControlOK, auxVars
<1>. QED  BY <1>1, <1>2, <1>3, <1>4, <1>5 DEF API

\* What the clients do keeps the types.
LEMMA ClientTypeOK ==
    ASSUME TypeOK, Client
    PROVE  TypeOK'
<1>. PICK r \in Requests : Call(r) \/ Disconnect(r)
    BY DEF Client
<1>1. CASE Call(r)
    BY <1>1 DEF Call, HandlerAt, TypeOK, QueueOK, EntriesOK, ControlOK, HandlerLabels, Returned,
                queueVars, entryVars, auxVars
<1>2. CASE Disconnect(r)
    BY <1>2 DEF Disconnect, TypeOK, QueueOK, EntriesOK, ControlOK, queueVars, controlVars, auxVars
<1>. QED  BY <1>1, <1>2

\* A step that changes nothing keeps everything.
LEMMA StutterQueueInv ==
    ASSUME UNCHANGED vars
    PROVE  /\ TypeOK => TypeOK'
           /\ QueueInv => QueueInv'
BY DEF vars, queueVars, entryVars, controlVars, auxVars, TypeOK, QueueOK, EntriesOK, ControlOK,
       QueueInv, EntryOK, Distinct

\* Every step keeps the types.
LEMMA NextTypeOK ==
    ASSUME TypeOK, [Next]_vars
    PROVE  TypeOK'
BY HandlerTypeOK, ProcessorTypeOK, ApiTypeOK, ClientTypeOK, StutterQueueInv DEF Next

\* In every state the queue holds no more than MaxQueueSize requests, and the
\* processor has an entry exactly while it serves one.
THEOREM QueueTypeCorrect == Spec => []TypeOK
<1>1. TypeOK /\ [Next]_vars => TypeOK'
    BY NextTypeOK
<1>. QED  BY InitTypeOK, <1>1, PTL DEF Spec

-----------------------------------------------------------------------------
(* Who may still answer an entry: the part of QueueInv beyond the types. *)

\* The invariant holds at the start.
LEMMA InitQueueInv == Init => QueueInv
<1>. SUFFICES ASSUME Init PROVE QueueInv
    OBVIOUS
<1>1. Range(entries) = {} /\ Distinct(entries)
    BY DEF Init, Range, Distinct
<1>2. None \notin Requests
    BY OllamaAssumption
<1>3. \A r \in Requests : EntryOK(r)
    BY <1>1, <1>2 DEF Init, Idle, EntryOK
<1>. QED  BY InitTypeOK, <1>1, <1>3 DEF QueueInv

\* A step that answers nothing, charges nobody, and adds nothing to the queue, and
\* leaves processor and handlers where they are, keeps every entry right.
LEMMA QuietStep ==
    ASSUME QueueInv, UNCHANGED <<handler, proc, charged, resultCh>>,
           Range(entries') \subseteq Range(entries)
    PROVE  \A q \in Requests : EntryOK(q)'
BY DEF QueueInv, EntryOK

\* Withdrawing entries that wait keeps every entry right, if they leave the queue.
LEMMA WithdrawStep ==
    ASSUME QueueInv, NEW rs, NEW R, rs \subseteq Pending, Answer(rs, R),
           UNCHANGED <<handler, proc, charged>>,
           Range(entries') \subseteq Range(entries) \ rs
    PROVE  \A q \in Requests : EntryOK(q)'
<1>. SUFFICES ASSUME NEW q \in Requests PROVE EntryOK(q)'
    OBVIOUS
<1>1. EntryOK(q)
    BY DEF QueueInv
<1>2. CASE q \in rs
    <2>1. q \in Range(entries)
        BY <1>2 DEF Pending
    <2>2. resultCh'[q] = <<"withdrawn">>
        <3>1. resultCh[q] = <<>>
            BY <1>1, <2>1 DEF EntryOK
        <3>2. resultCh'[q] = Append(resultCh[q], "withdrawn")
            BY <1>2 DEF Answer
        <3>. QED  BY <3>1, <3>2
    <2>3. q \notin Range(entries') /\ q \notin charged
        BY <1>1, <1>2, <2>1 DEF EntryOK
    <2>4. /\ handler[q] \in {"signal", "wait", "expired", "left"}
          /\ proc.e # q
        BY <1>1, <2>1 DEF EntryOK
    <2>. QED  BY <2>2, <2>3, <2>4 DEF EntryOK
<1>3. CASE q \notin rs
    <2>1. resultCh'[q] = resultCh[q]
        BY <1>3 DEF Answer
    <2>. QED  BY <1>1, <2>1 DEF EntryOK
<1>. QED  BY <1>2, <1>3

\* The steps of HandleRequest keep the queue right.
LEMMA HandlerQueueInv ==
    ASSUME QueueInv, NEW r \in Requests, Handler(r)
    PROVE  Distinct(entries') /\ \A q \in Requests : EntryOK(q)'
<1>. USE DEF HandlerAt
<1>1. handler \in [Requests -> HandlerLabels] /\ entries \in Seq(Requests)
    BY DEF QueueInv, TypeOK, QueueOK, ControlOK
<1>2. Distinct(entries) /\ \A q \in Requests : EntryOK(q)
    BY DEF QueueInv
<1>3. CASE CheckOthers(r)
    BY <1>1, <1>2, <1>3 DEF CheckOthers, EntryOK, queueVars, entryVars
<1>4. CASE Enqueue(r)
    <2>1. CASE HasRoom(entries)
        <3>1. /\ Append(entries, r) \in Seq(Requests)
              /\ Range(Append(entries, r)) \subseteq Range(entries) \cup {r}
            BY <1>1, Appended
        <3>2. entries' \in Sorted(Append(entries, r), bid')
            BY <1>4, <2>1 DEF Enqueue
        <3>3. Distinct(entries') /\ Range(entries') \subseteq Range(entries) \cup {r}
            BY <3>1, <3>2, SortedKeeps
        <3>4. \A q \in Requests : EntryOK(q)'
            BY <1>1, <1>2, <1>4, <2>1, <3>3 DEF Enqueue, EntryOK
        <3>. QED  BY <3>3, <3>4
    <2>2. CASE ~HasRoom(entries)
        BY <1>1, <1>2, <1>4, <2>2 DEF Enqueue, EntryOK
    <2>. QED  BY <2>1, <2>2
<1>5. CASE Signal(r)
    BY <1>1, <1>2, <1>5 DEF Signal, EntryOK, queueVars, entryVars
<1>6. CASE Receive(r)
    <2>1. resultCh[r] \in Seq(Results) /\ resultCh[r] # <<>> /\ Len(resultCh[r]) <= 1
        BY <1>2, <1>6 DEF Receive, EntryOK, QueueInv, TypeOK, EntriesOK
    <2>2. \E x \in Results : resultCh[r] = <<x>>
        BY <2>1, OneElement
    <2>3. CASE Head(resultCh[r]) = "answered"
        BY <1>1, <1>2, <1>6, <2>1, <2>3 DEF Receive, EntryOK, queueVars, entryVars
    <2>4. CASE Head(resultCh[r]) # "answered"
        <3>1. resultCh[r] \in {<<"failed">>, <<"withdrawn">>}
            BY <2>2, <2>4 DEF Results
        <3>. QED  BY <1>1, <1>2, <1>6, <2>1, <2>4, <3>1
                  DEF Receive, EntryOK, queueVars, entryVars
    <2>. QED  BY <2>3, <2>4
<1>7. CASE Expire(r) \/ Leave(r)
    BY <1>1, <1>2, <1>7 DEF Expire, Leave, GiveUp, EntryOK, queueVars
<1>8. CASE RemoveEntry(r)
    <2>1. Distinct(entries') /\ Range(entries') \subseteq Range(entries) \ {r}
        BY <1>1, <1>8, WithoutKeeps DEF RemoveEntry
    <2>. QED  BY <1>1, <1>2, <1>8, <2>1 DEF RemoveEntry, EntryOK, entryVars
<1>. QED  BY <1>3, <1>4, <1>5, <1>6, <1>7, <1>8 DEF Handler

\* The steps of the processor keep the queue right.
LEMMA ProcessorQueueInv ==
    ASSUME QueueInv, Processor
    PROVE  Distinct(entries') /\ \A q \in Requests : EntryOK(q)'
<1>. USE DEF ProcAt, queueVars, entryVars
<1>1. /\ entries \in Seq(Requests)
      /\ proc \in [at : ProcLabels, e : Requests \cup {None}]
      /\ proc.e = None <=> proc.at \in {"sleep", "pop", "quit"}
      /\ None \notin Requests
    BY OllamaAssumption DEF QueueInv, TypeOK, QueueOK, ControlOK
<1>2. Distinct(entries) /\ \A q \in Requests : EntryOK(q)
    BY DEF QueueInv
<1>3. CASE Wake \/ Quit \/ Activate \/ Send \/ Run
    <2>1. entries' = entries /\ resultCh' = resultCh /\ handler' = handler /\ charged' = charged
        BY <1>3 DEF Wake, Quit, Activate, Send, Run
    <2>2. proc'.e = proc.e /\ proc.at \notin {"reply", "clear"} /\ proc'.at # "clear"
        BY <1>1, <1>3 DEF Wake, Quit, Activate, Send, Run
    <2>. QED  BY <1>2, <2>1, <2>2 DEF EntryOK
<1>4. CASE PopNext
    <2>1. CASE Pending = {}
        <3>1. entries' = <<>> /\ proc'.e = None
            BY <1>4, <2>1 DEF PopNext, Idle
        <3>2. Range(entries') = {} /\ Distinct(entries')
            BY <3>1 DEF Range, Distinct
        <3>3. proc.e = None
            BY <1>1, <1>4 DEF PopNext
        <3>. QED  BY <1>1, <1>2, <1>4, <3>1, <3>2, <3>3 DEF PopNext, EntryOK
    <2>2. CASE Pending # {}
        <3>1. PICK i \in DOMAIN entries :
                  /\ entries' = SubSeq(entries, i + 1, Len(entries))
                  /\ proc' = [at |-> "taken", e |-> entries[i]]
            BY <1>4, <2>2 DEF PopNext
        <3>2. entries[i] \in Range(entries)
            BY DEF Range
        <3>3. Distinct(entries') /\ Range(entries') \subseteq Range(entries) \ {entries[i]}
            BY <1>1, <1>2, <3>1, Dropped
        <3>4. proc.e = None
            BY <1>1, <1>4 DEF PopNext
        <3>. QED  BY <1>1, <1>2, <1>4, <3>1, <3>2, <3>3, <3>4 DEF PopNext, EntryOK
    <2>. QED  BY <2>1, <2>2
<1>5. CASE Bill
    <2>1. proc'.e = proc.e /\ proc.at = "bill" /\ proc'.at = "reply"
        BY <1>1, <1>5 DEF Bill
    <2>2. charged' \subseteq charged \cup {proc.e}
        BY <1>5 DEF Bill
    <2>. QED  BY <1>2, <1>5, <2>1, <2>2 DEF Bill, EntryOK
<1>6. CASE Reply
    <2>1. proc'.e = proc.e /\ proc.at \in {"reply", "fail"} /\ proc'.at = "clear"
        BY <1>1, <1>6 DEF Reply
    <2>2. proc.e \in Requests
        BY <1>1, <2>1
    <2>3. resultCh[proc.e] = <<>>
        BY <1>2, <2>1, <2>2 DEF EntryOK
    <2>4. \A q \in Requests : q # proc.e => resultCh'[q] = resultCh[q]
        BY <1>6 DEF Reply, QueueInv, TypeOK, EntriesOK
    <2>5. resultCh'[proc.e] = Append(resultCh[proc.e], IF proc.at = "reply" THEN "answered" ELSE "failed")
        BY <1>6, <2>2 DEF Reply, QueueInv, TypeOK, EntriesOK
    <2>6. CASE proc.at = "reply"
        <3>1. resultCh'[proc.e] = <<"answered">>
            BY <2>3, <2>5, <2>6
        <3>. QED  BY <1>2, <1>6, <2>1, <2>2, <2>3, <2>4, <3>1 DEF Reply, EntryOK
    <2>7. CASE proc.at = "fail"
        <3>1. resultCh'[proc.e] = <<"failed">>
            BY <2>3, <2>5, <2>7
        <3>2. proc.e \notin charged
            <4>1. proc.e \in charged => resultCh[proc.e] = <<"answered">> \/ proc.at = "reply"
                BY <1>2, <2>2 DEF EntryOK
            <4>2. <<"answered">> # <<>>
                OBVIOUS
            <4>. QED  BY <2>3, <2>7, <4>1, <4>2
        <3>3. UNCHANGED <<entries, handler, charged>>
            BY <1>6 DEF Reply, queueVars
        <3>4. ASSUME NEW q \in Requests, q # proc.e PROVE EntryOK(q)'
            BY <1>2, <2>1, <2>4, <3>3, <3>4 DEF EntryOK
        <3>5. ASSUME NEW q \in Requests, q = proc.e PROVE EntryOK(q)'
            <4>1. EntryOK(q)
                BY <1>2
            <4>2. /\ q \notin Range(entries) /\ q \notin charged
                  /\ handler[q] \notin {"new", "check", "enqueue", "refused", "full"}
                BY <3>2, <3>5, <4>1 DEF EntryOK
            <4>3. resultCh'[q] = <<"failed">> /\ Len(<<"failed">>) = 1
                BY <3>1, <3>5
            <4>4. proc'.at = "clear" /\ proc'.e = q
                BY <2>1, <3>5
            <4>. QED  BY <3>3, <4>2, <4>3, <4>4 DEF EntryOK
        <3>6. Distinct(entries')
            BY <1>2, <3>3
        <3>7. ASSUME NEW q \in Requests PROVE EntryOK(q)'
            BY <3>4, <3>5
        <3>. QED  BY <3>6, <3>7
    <2>. QED  BY <2>1, <2>6, <2>7
<1>7. CASE Deactivate
    BY <1>1, <1>2, <1>7 DEF Deactivate, EntryOK
<1>. QED  BY <1>3, <1>4, <1>5, <1>6, <1>7 DEF Processor

\* The calls from the API keep the queue right.
LEMMA ApiQueueInv ==
    ASSUME QueueInv, API
    PROVE  Distinct(entries') /\ \A q \in Requests : EntryOK(q)'
<1>. USE DEF controlVars
<1>1. entries \in Seq(Requests) /\ Distinct(entries)
    BY DEF QueueInv, TypeOK, QueueOK
<1>2. ASSUME NEW c \in Containers, NEW b \in Bids, SetBid(c, b)
      PROVE  Distinct(entries') /\ \A q \in Requests : EntryOK(q)'
    <2>1. Distinct(entries') /\ Range(entries') \subseteq Range(entries)
        BY <1>1, <1>2, SortedKeeps DEF SetBid
    <2>. QED  BY <1>2, <2>1, QuietStep DEF SetBid
<1>3. ASSUME NEW c \in Containers, CancelEntry(c)
      PROVE  Distinct(entries') /\ \A q \in Requests : EntryOK(q)'
    <2>1. PICK r \in Pending : Answer({r}, {}) /\ entries' \in Without(entries, {r})
        BY <1>3 DEF CancelEntry
    <2>2. Distinct(entries') /\ Range(entries') \subseteq Range(entries) \ {r}
        BY <1>1, <2>1, WithoutKeeps
    <2>. QED  BY <1>3, <2>1, <2>2, WithdrawStep DEF CancelEntry
<1>4. ASSUME NEW c \in Containers, CancelAllPending(c) \/ RemoveContainer(c)
      PROVE  Distinct(entries') /\ \A q \in Requests : EntryOK(q)'
    <2>. DEFINE rs == {r \in Pending : Owner[r] = c}
    <2>1. Answer(rs, ActiveOf(c)) /\ entries' \in Without(entries, {r \in Requests : Owner[r] = c})
        BY <1>4 DEF CancelAllPending, RemoveContainer, DropAll
    <2>2. /\ Distinct(entries')
          /\ Range(entries') \subseteq Range(entries) \ {r \in Requests : Owner[r] = c}
        BY <1>1, <2>1, WithoutKeeps
    <2>3. rs \subseteq {r \in Requests : Owner[r] = c}
        BY PendingType DEF QueueInv
    <2>4. UNCHANGED <<handler, proc, charged>>
        BY <1>4 DEF CancelAllPending, RemoveContainer
    <2>5. rs \subseteq Pending
        OBVIOUS
    <2>. HIDE DEF rs
    <2>. QED  BY <2>1, <2>2, <2>3, <2>4, <2>5, WithdrawStep
<1>5. CASE Stop
    BY <1>1, <1>5, QuietStep DEF Stop, queueVars, entryVars
<1>6. CASE Drain
    <2>1. Answer(Pending, {active} \ {None}) /\ UNCHANGED <<handler, proc, charged>>
        BY <1>6 DEF Drain
    <2>2. Range(entries') = {} /\ Distinct(entries')
        BY <1>6 DEF Drain, Range, Distinct
    <2>. QED  BY <2>1, <2>2, WithdrawStep
<1>. QED  BY <1>2, <1>3, <1>4, <1>5, <1>6 DEF API

\* What the clients do keeps the queue right.
LEMMA ClientQueueInv ==
    ASSUME QueueInv, Client
    PROVE  Distinct(entries') /\ \A q \in Requests : EntryOK(q)'
<1>. PICK r \in Requests : Call(r) \/ Disconnect(r)
    BY DEF Client
<1>1. CASE Call(r)
    BY <1>1 DEF Call, HandlerAt, QueueInv, TypeOK, ControlOK, EntryOK, queueVars, entryVars
<1>2. CASE Disconnect(r)
    BY <1>2, QuietStep DEF Disconnect, QueueInv, queueVars, controlVars
<1>. QED  BY <1>1, <1>2

\* Every step keeps the invariant.
LEMMA NextQueueInv ==
    ASSUME QueueInv, [Next]_vars
    PROVE  QueueInv'
<1>1. TypeOK'
    BY NextTypeOK DEF QueueInv
<1>2. CASE Next
    <2>1. Distinct(entries') /\ \A q \in Requests : EntryOK(q)'
        BY <1>2, HandlerQueueInv, ProcessorQueueInv, ApiQueueInv, ClientQueueInv DEF Next
    <2>. QED  BY <1>1, <2>1 DEF QueueInv
<1>3. CASE UNCHANGED vars
    BY <1>3, StutterQueueInv
<1>. QED  BY <1>2, <1>3

\* An entry waits at most once, and only an entry that waits, or that the processor
\* has taken, is unanswered and can be answered.
THEOREM QueueCorrect == Spec => []QueueInv
<1>1. QueueInv /\ [Next]_vars => QueueInv'
    BY NextQueueInv
<1>. QED  BY InitQueueInv, <1>1, PTL DEF Spec

\* What the invariant says of every request.
LEMMA QueueInvImplies ==
    QueueInv => /\ AnsweredOnce
                /\ WithdrawnIsNotServed
                /\ ReturnedLeavesQueue
<1>. SUFFICES ASSUME QueueInv
              PROVE  AnsweredOnce /\ WithdrawnIsNotServed /\ ReturnedLeavesQueue
    OBVIOUS
<1>1. \A r \in Requests : EntryOK(r)
    BY DEF QueueInv
<1>2. /\ Range(<<>>) = {}
      /\ \A x : Range(<<x>>) = {x}
    BY DEF Range
<1>3. AnsweredOnce
    BY <1>1 DEF AnsweredOnce, EntryOK
<1>4. WithdrawnIsNotServed
    BY <1>1, <1>2 DEF WithdrawnIsNotServed, EntryOK
<1>5. ReturnedLeavesQueue
    BY <1>1 DEF ReturnedLeavesQueue, Returned, EntryOK
<1>. QED  BY <1>3, <1>4, <1>5

\* Of the processor, a cancellation and the shutdown only one ever answers a
\* request, so that none of them blocks on its result channel.
THEOREM AnsweredAtMostOnce == Spec => []AnsweredOnce
BY QueueCorrect, QueueInvImplies, PTL

\* A request that was told it is withdrawn is not served any more.
THEOREM WithdrawnStaysOut == Spec => []WithdrawnIsNotServed
BY QueueCorrect, QueueInvImplies, PTL

\* A call that has returned has no entry in the queue.
THEOREM ReturnedIsRemoved == Spec => []ReturnedLeavesQueue
BY QueueCorrect, QueueInvImplies, PTL

-----------------------------------------------------------------------------
(* The queue implements BidQueue. *)

\* A listing of a finite set lists all of it.
LEMMA ListsAll ==
    ASSUME NEW S, IsFiniteSet(S), NEW t \in SetToSeqs(S)
    PROVE  Range(t) = S
<1>. DEFINE n == Cardinality(S)
<1>1. n \in Nat
    BY FS_CardinalityType
<1>2. t \in [1..n -> S] /\ \A i, j \in 1..n : i # j => t[i] # t[j]
    BY DEF SetToSeqs
<1>3. t \in Injection(1..n, S)
    BY <1>2 DEF Injection, IsInjective
<1>4. Cardinality(1..n) = n
    BY <1>1, FS_Interval
<1>5. t \in Surjection(1..n, S)
    BY <1>3, <1>4, FS_Injection
<1>. QED  BY <1>2, <1>5 DEF Surjection, Range

\* Without(s, R) is all of s but R, in the same order.
LEMMA WithoutIs ==
    ASSUME NEW T, NEW s \in Seq(T), NEW R, NEW t \in Without(s, R)
    PROVE  /\ Range(t) = Range(s) \ R
           /\ \A i, j \in DOMAIN t : i < j => Precedes(s, t[i], t[j])
<1>1. IsFiniteSet(Range(s) \ R)
    BY QueueRange, FS_Subset
<1>. QED  BY <1>1, ListsAll DEF Without

\* Sorted(s, b) is all of s, by bid and then as before.
LEMMA SortedIs ==
    ASSUME NEW T, NEW s \in Seq(T), NEW b, NEW t \in Sorted(s, b)
    PROVE  /\ Range(t) = Range(s)
           /\ \A i, j \in DOMAIN t : i < j =>
                  \/ b[t[i]] > b[t[j]]
                  \/ b[t[i]] = b[t[j]] /\ Precedes(s, t[i], t[j])
BY QueueRange, ListsAll DEF Sorted

\* Appending adds the new element, behind all others.
LEMMA AppendedIs ==
    ASSUME NEW T, NEW s \in Seq(T), NEW x \in T
    PROVE  /\ Range(Append(s, x)) = Range(s) \cup {x}
           /\ \A a, b : Precedes(Append(s, x), a, b) =>
                  Precedes(s, a, b) \/ (a \in Range(s) /\ b = x)
           /\ \A a, b : Precedes(s, a, b) \/ (a \in Range(s) /\ b = x) =>
                  Precedes(Append(s, x), a, b)
<1>. DEFINE u == Append(s, x)
<1>1. Len(s) \in Nat /\ DOMAIN s = 1..Len(s)
    BY LenProperties
<1>2. /\ DOMAIN u = 1..(Len(s) + 1)
      /\ \A i \in 1..Len(s) : u[i] = s[i]
      /\ u[Len(s) + 1] = x
    BY <1>1, AppendProperties, LenProperties
<1>3. \A i \in DOMAIN u : i \in DOMAIN s \/ i = Len(s) + 1
    BY <1>1, <1>2
<1>4. \A i \in DOMAIN s : i \in DOMAIN u /\ i < Len(s) + 1 /\ Len(s) + 1 \in DOMAIN u
    BY <1>1, <1>2
<1>5. \A i, j \in DOMAIN u : i < j => i \in DOMAIN s
    BY <1>1, <1>2
<1>. HIDE DEF u
<1>6. Range(u) = Range(s) \cup {x}
  <2>1. Len(s) + 1 \in DOMAIN u
      BY <1>1, <1>2
  <2>. QED  BY <1>1, <1>2, <1>3, <1>4, <2>1 DEF Range
<1>7. ASSUME NEW a, NEW b, Precedes(u, a, b)
      PROVE  Precedes(s, a, b) \/ (a \in Range(s) /\ b = x)
  <2>1. PICK i, j \in DOMAIN u : i < j /\ u[i] = a /\ u[j] = b
      BY <1>7 DEF Precedes
  <2>2. i \in DOMAIN s /\ s[i] = a
      BY <1>1, <1>2, <1>5, <2>1
  <2>3. CASE j \in DOMAIN s
      BY <1>1, <1>2, <2>1, <2>2, <2>3 DEF Precedes
  <2>4. CASE j = Len(s) + 1
      BY <1>2, <2>1, <2>2, <2>4 DEF Range
  <2>. QED  BY <1>3, <2>3, <2>4
<1>8. ASSUME NEW a, NEW b, Precedes(s, a, b)
      PROVE  Precedes(u, a, b)
    BY <1>1, <1>2, <1>4, <1>8 DEF Precedes
<1>9. ASSUME NEW a \in Range(s)
      PROVE  Precedes(u, a, x)
  <2>1. PICK i \in DOMAIN s : s[i] = a
      BY DEF Range
  <2>2. u[i] = a /\ i < Len(s) + 1 /\ i \in DOMAIN u /\ Len(s) + 1 \in DOMAIN u
      BY <1>1, <1>2, <1>4, <2>1
  <2>. QED  BY <1>2, <2>2 DEF Precedes
<1>. QED  BY <1>6, <1>7, <1>8, <1>9 DEF u

\* What follows position i of a sequence of distinct elements.
LEMMA DroppedIs ==
    ASSUME NEW T, NEW s \in Seq(T), Distinct(s), NEW i \in DOMAIN s
    PROVE  LET t == SubSeq(s, i + 1, Len(s)) IN
           /\ Range(t) = {s[j] : j \in {k \in DOMAIN s : i < k}}
           /\ \A k, l \in DOMAIN t : k < l => Precedes(s, t[k], t[l])
<1>. DEFINE t == SubSeq(s, i + 1, Len(s))
<1>1. Len(s) \in Nat /\ DOMAIN s = 1..Len(s) /\ \A k \in 1..Len(s) : s[k] \in T
    BY LenProperties, ElementOfSeq
<1>2. /\ t \in Seq(T)
      /\ Len(t) = Len(s) - i
      /\ \A k \in 1..Len(t) : t[k] = s[i + k]
    BY <1>1, SubSeqProperties
<1>3. DOMAIN t = 1..(Len(s) - i)
    BY <1>2, LenProperties
<1>. HIDE DEF t
<1>4. \A k \in DOMAIN t : t[k] = s[i + k] /\ i + k \in DOMAIN s /\ i < i + k
    BY <1>1, <1>2, <1>3
<1>5. \A j \in DOMAIN s : i < j => j - i \in DOMAIN t /\ i + (j - i) = j
    BY <1>1, <1>3
<1>6. \A k, l \in DOMAIN t : k < l => i + k < i + l
    BY <1>1, <1>3
<1>7. Range(t) = {s[j] : j \in {k \in DOMAIN s : i < k}}
  <2>1. \A j \in DOMAIN s : i < j => t[j - i] = s[j]
      BY <1>4, <1>5
  <2>. QED  BY <1>4, <1>5, <2>1 DEF Range
<1>8. \A k, l \in DOMAIN t : k < l => Precedes(s, t[k], t[l])
    BY <1>4, <1>6 DEF Precedes
<1>. QED  BY <1>7, <1>8 DEF t

-----------------------------------------------------------------------------
(* The order of the queue, and what holds of a request before it is queued. *)

\* r is to be served before o.
Outranks(r, o) ==
    \/ bid[r] > bid[o]
    \/ /\ bid[r] = bid[o]
       /\ {r, o} \cap repriced # {} \/ Precedes(arrived, r, o)

\* Whoever is further ahead outranks those behind.
Ordered == \A r, o : Precedes(entries, r, o) => Outranks(r, o)

\* A call that has no entry yet was never queued or cancelled.
BeforeQueue ==
    \A r \in Requests :
        handler[r] \in {"new", "check", "enqueue"} => ~cancelled[r] /\ r \notin Range(arrived)

\* The bids are those that were set, or the default.
BidsOK ==
    /\ bids \in [Containers -> Bids \cup {0}]
    /\ bid \in [Requests -> Bids \cup {0, DefaultBid}]

\* QueueInv, and the queue in the order of its bids and of arrival.
OrderInv ==
    /\ QueueInv
    /\ BidsOK
    /\ BeforeQueue
    /\ Range(entries) \subseteq Range(arrived)
    /\ Ordered

\* Outranking is what BidQueue means by it.
LEMMA OutranksIs ==
    ASSUME NEW r, NEW o
    PROVE  Outranks(r, o) <=> Abstract!Outranks(r, o)
BY DEF Outranks, Abstract!Outranks, Abstract!CameBefore, Precedes

\* Who outranks whom does not change when requests arrive behind or bids are left alone.
LEMMA OutranksKept ==
    ASSUME NEW r, NEW o, Outranks(r, o),
           bid'[r] = bid[r], bid'[o] = bid[o], repriced \subseteq repriced',
           Precedes(arrived, r, o) => Precedes(arrived', r, o)
    PROVE  Outranks(r, o)'
BY DEF Outranks

\* It holds at the start.
LEMMA InitOrder == Init => OrderInv
<1>. SUFFICES ASSUME Init PROVE OrderInv
    OBVIOUS
<1>1. BidsOK /\ BeforeQueue /\ Range(entries) \subseteq Range(arrived) /\ Ordered
    BY DEF Init, BidsOK, BeforeQueue, Range, Ordered, Precedes
<1>. QED  BY <1>1, InitQueueInv DEF OrderInv

\* A step that leaves what was queued and at what bid, and only takes entries out.
LEMMA FewerOrdered ==
    ASSUME OrderInv, UNCHANGED <<bids, bid, arrived, repriced>>,
           Range(entries') \subseteq Range(entries),
           \A r, o : Precedes(entries', r, o) => Precedes(entries, r, o)
    PROVE  BidsOK' /\ Range(entries')  \subseteq Range(arrived') /\ Ordered'
<1>1. \A r, o : Outranks(r, o) => Outranks(r, o)'
    BY OutranksKept
<1>2. Ordered'
    BY <1>1 DEF Ordered, OrderInv
<1>. QED  BY <1>2 DEF OrderInv, BidsOK

\* Taking R out of the queue keeps its order.
LEMMA WithoutOrdered ==
    ASSUME OrderInv, NEW R, entries' \in Without(entries, R)
    PROVE  /\ Range(entries') = Range(entries) \ R
           /\ \A r, o : Precedes(entries', r, o) => Precedes(entries, r, o)
<1>1. /\ Range(entries') = Range(entries) \ R
      /\ \A i, j \in DOMAIN entries' : i < j => Precedes(entries, entries'[i], entries'[j])
    BY WithoutIs DEF OrderInv, QueueInv, TypeOK, QueueOK
<1>2. ASSUME NEW r, NEW o, Precedes(entries', r, o)
      PROVE  Precedes(entries, r, o)
  <2>1. PICK i, j \in DOMAIN entries' : i < j /\ entries'[i] = r /\ entries'[j] = o
      BY <1>2 DEF Precedes
  <2>. QED  BY <1>1, <2>1
<1>. QED  BY <1>1, <1>2

\* A bid of a container that has set one.
LEMMA StandingBidIs ==
    ASSUME OrderInv, NEW c \in Containers
    PROVE  StandingBid(c) \in Bids \cup {0, DefaultBid}
BY DEF OrderInv, BidsOK, StandingBid

\* Queueing a request leaves the queue ordered.
LEMMA EnqueueOrdered ==
    ASSUME OrderInv, NEW r \in Requests, Enqueue(r), HasRoom(entries)
    PROVE  /\ BidsOK' /\ Ordered'
           /\ Range(entries') = Range(entries) \cup {r}
           /\ Range(arrived') = Range(arrived) \cup {r}
           /\ r \notin Range(arrived) /\ ~cancelled[r] /\ r \notin Range(entries)
<1>1. /\ entries \in Seq(Requests) /\ arrived \in Seq(Requests)
      /\ Range(entries) \subseteq Range(arrived)
    BY DEF OrderInv, QueueInv, TypeOK, QueueOK
<1>2. r \notin Range(arrived) /\ ~cancelled[r] /\ r \notin Range(entries)
    BY <1>1 DEF OrderInv, BeforeQueue, Enqueue
<1>. DEFINE long == Append(entries, r)
<1>3. /\ entries' \in Sorted(long, bid')
      /\ bid' = [bid EXCEPT ![r] = StandingBid(Owner[r])]
      /\ arrived' = Append(arrived, r)
      /\ UNCHANGED <<bids, repriced>>
    BY DEF Enqueue
<1>4. BidsOK'
  <2>1. Owner[r] \in Containers
      BY OllamaAssumption
  <2>2. StandingBid(Owner[r]) \in Bids \cup {0, DefaultBid}
      BY <2>1, StandingBidIs
  <2>. QED  BY <1>3, <2>2 DEF OrderInv, BidsOK
<1>5. /\ long \in Seq(Requests)
      /\ Range(long) = Range(entries) \cup {r}
      /\ \A a, b : Precedes(long, a, b) => Precedes(entries, a, b) \/ (a \in Range(entries) /\ b = r)
    BY <1>1, AppendedIs, Appended
<1>6. /\ Range(arrived') = Range(arrived) \cup {r}
      /\ \A a, b : Precedes(arrived, a, b) \/ (a \in Range(arrived) /\ b = r) => Precedes(arrived', a, b)
    BY <1>1, <1>3, AppendedIs
<1>. HIDE DEF long
<1>7. /\ Range(entries') = Range(long)
      /\ \A i, j \in DOMAIN entries' : i < j =>
             \/ bid'[entries'[i]] > bid'[entries'[j]]
             \/ bid'[entries'[i]] = bid'[entries'[j]] /\ Precedes(long, entries'[i], entries'[j])
  <2>1. long \in Seq(Requests) /\ entries' \in Sorted(long, bid')
      BY <1>3, <1>5
  <2>2. Range(entries') = Range(long)
      BY <2>1, SortedIs
  <2>. QED  BY <2>1, <2>2 DEF Sorted
<1>8. \A q \in Requests : q # r => bid'[q] = bid[q]
    BY <1>3 DEF OrderInv, BidsOK
<1>9. ASSUME NEW a, NEW b, Precedes(entries, a, b)
      PROVE  Outranks(a, b)'
  <2>1. Outranks(a, b)
      BY <1>9 DEF OrderInv, Ordered
  <2>2. a \in Range(entries) /\ b \in Range(entries)
      BY <1>9 DEF Precedes, Range
  <2>3. a \in Requests /\ b \in Requests /\ a # r /\ b # r
      BY <1>1, <1>2, <2>2, QueueRange
  <2>4. repriced \subseteq repriced'
      BY <1>3
  <2>5. Precedes(arrived, a, b) => Precedes(arrived', a, b)
      BY <1>6
  <2>. QED  BY <1>8, <2>1, <2>3, <2>4, <2>5, OutranksKept
<1>10. Ordered'
  <2>. SUFFICES ASSUME NEW a, NEW b, Precedes(entries', a, b)
                PROVE  Outranks(a, b)'
      BY DEF Ordered
  <2>1. PICK i, j \in DOMAIN entries' : i < j /\ entries'[i] = a /\ entries'[j] = b
      BY DEF Precedes
  <2>2. bid'[a] > bid'[b] \/ (bid'[a] = bid'[b] /\ Precedes(long, a, b))
      BY <1>7, <2>1
  <2>3. CASE bid'[a] > bid'[b]
      BY <2>3 DEF Outranks
  <2>4. CASE Precedes(entries, a, b)
      BY <1>9, <2>4
  <2>5. CASE bid'[a] = bid'[b] /\ a \in Range(entries) /\ b = r
    <3>1. Precedes(arrived', a, b)
        BY <1>1, <1>6, <2>5
    <3>. QED  BY <2>5, <3>1 DEF Outranks
  <2>. QED  BY <1>5, <2>2, <2>3, <2>4, <2>5
<1>. QED  BY <1>2, <1>4, <1>5, <1>6, <1>7, <1>10

\* Changing a bid leaves the queue ordered, and all who wait in it.
LEMMA SetBidOrdered ==
    ASSUME OrderInv, NEW c \in Containers, NEW b \in Bids, SetBid(c, b)
    PROVE  BidsOK' /\ Ordered' /\ Range(entries') = Range(entries)
<1>. DEFINE affected == {q \in Pending : Owner[q] = c}
<1>1. entries \in Seq(Requests) /\ bid \in [Requests -> Nat]
    BY DEF OrderInv, QueueInv, TypeOK, QueueOK, EntriesOK
<1>2. /\ entries' \in Sorted(entries, bid')
      /\ bid' = [q \in Requests |-> IF q \in affected THEN b ELSE bid[q]]
      /\ bids' = [bids EXCEPT ![c] = b]
      /\ repriced' = repriced \cup {q \in affected : bid[q] # b}
      /\ UNCHANGED arrived
    BY DEF SetBid
<1>3. affected \subseteq Requests
    BY PendingType DEF OrderInv, QueueInv
<1>. HIDE DEF affected
<1>4. BidsOK'
    BY <1>2 DEF OrderInv, BidsOK
<1>5. /\ Range(entries') = Range(entries)
      /\ \A i, j \in DOMAIN entries' : i < j =>
             \/ bid'[entries'[i]] > bid'[entries'[j]]
             \/ bid'[entries'[i]] = bid'[entries'[j]] /\ Precedes(entries, entries'[i], entries'[j])
  <2>1. entries' \in Sorted(entries, bid')
      BY <1>2
  <2>2. Range(entries') = Range(entries)
      BY <1>1, <2>1, SortedIs
  <2>. QED  BY <2>1, <2>2 DEF Sorted
<1>6. \A q \in Requests : bid'[q] # bid[q] => q \in repriced'
    BY <1>2
<1>7. Ordered'
  <2>. SUFFICES ASSUME NEW r, NEW o, Precedes(entries', r, o)
                PROVE  Outranks(r, o)'
      BY DEF Ordered
  <2>1. PICK i, j \in DOMAIN entries' : i < j /\ entries'[i] = r /\ entries'[j] = o
      BY DEF Precedes
  <2>2. bid'[r] > bid'[o] \/ (bid'[r] = bid'[o] /\ Precedes(entries, r, o))
      BY <1>5, <2>1
  <2>3. CASE bid'[r] > bid'[o]
      BY <2>3 DEF Outranks
  <2>4. CASE bid'[r] = bid'[o] /\ Precedes(entries, r, o)
    <3>1. Outranks(r, o)
        BY <2>4 DEF OrderInv, Ordered
    <3>2. r \in Requests /\ o \in Requests
        BY <1>1, <2>4, QueueRange DEF Precedes, Range
    <3>3. CASE r \in repriced' \/ o \in repriced'
        BY <2>4, <3>3 DEF Outranks
    <3>4. CASE bid'[r] = bid[r] /\ bid'[o] = bid[o]
        BY <1>2, <3>1, <3>4, OutranksKept
    <3>. QED  BY <1>6, <3>2, <3>3, <3>4
  <2>. QED  BY <2>2, <2>3, <2>4
<1>. QED  BY <1>4, <1>5, <1>7

-----------------------------------------------------------------------------
(* Every step is a step of BidQueue, or changes nothing that it shows, and keeps *)
(* the order.                                                                    *)

\* What a step must do; BeforeQueue is treated on its own.
Refines ==
    /\ BidsOK' /\ Ordered' /\ Range(entries') \subseteq Range(arrived')
    /\ Abstract!Next \/ UNCHANGED Abstract!vars

\* A step that leaves the queue and what is served alone changes nothing.
LEMMA StutterRefines ==
    ASSUME OrderInv, UNCHANGED <<entries, bids, bid, cancelled, proc.e, arrived, repriced>>
    PROVE  Refines
<1>1. Range(entries') = Range(entries)
    BY DEF Range
<1>2. \A r, o : Precedes(entries', r, o) => Precedes(entries, r, o)
    BY DEF Precedes
<1>3. Pending' = Pending
    BY <1>1 DEF Pending
<1>. QED  BY <1>1, <1>2, <1>3, FewerOrdered DEF Refines, Abstract!vars

\* Whatever leaves the queue unserved was withdrawn.
LEMMA WithdrawRefines ==
    ASSUME OrderInv, UNCHANGED <<bids, bid, proc.e, arrived, repriced>>,
           Range(entries') \subseteq Range(entries),
           \A r, o : Precedes(entries', r, o) => Precedes(entries, r, o),
           Pending' \subseteq Pending
    PROVE  Refines
<1>1. BidsOK' /\ Ordered' /\ Range(entries') \subseteq Range(arrived')
    BY FewerOrdered
<1>2. Abstract!Withdraw(Pending \ Pending')
    BY DEF Abstract!Withdraw
<1>3. Pending \ Pending' \in SUBSET Pending
    OBVIOUS
<1>4. Abstract!Next
    BY <1>2, <1>3 DEF Abstract!Next
<1>. QED  BY <1>1, <1>4 DEF Refines

\* The requests that wait are no more than the entries.
LEMMA PendingCount ==
    ASSUME TypeOK
    PROVE  Cardinality(Pending) \in Nat /\ Cardinality(Pending) <= Len(entries)
<1>1. /\ IsFiniteSet(Range(entries))
      /\ Cardinality(Range(entries)) \in Nat
      /\ Cardinality(Range(entries)) <= Len(entries)
      /\ Len(entries) \in Nat
    BY QueueRange, LenProperties DEF TypeOK, QueueOK
<1>2. IsFiniteSet(Pending) /\ Cardinality(Pending) <= Cardinality(Range(entries))
    BY <1>1, FS_Subset DEF Pending
<1>3. Cardinality(Pending) \in Nat
    BY <1>2, FS_CardinalityType
<1>. QED  BY <1>1, <1>2, <1>3

\* BidQueue counts as everyone does.
LEMMA CardinalityIs == \A S : Abstract!Cardinality(S) = Cardinality(S)
BY DEF Cardinality, Abstract!Cardinality

\* An enqueued request is submitted with the standing bid of its container.
LEMMA EnqueueRefines ==
    ASSUME OrderInv, NEW r \in Requests, Enqueue(r)
    PROVE  Refines
<1>1. CASE HasRoom(entries)
  <2>1. /\ BidsOK' /\ Ordered'
        /\ Range(entries') = Range(entries) \cup {r}
        /\ Range(arrived') = Range(arrived) \cup {r}
        /\ r \notin Range(arrived) /\ ~cancelled[r] /\ r \notin Range(entries)
      BY <1>1, EnqueueOrdered
  <2>2. Range(entries') \subseteq Range(arrived')
      BY <2>1 DEF OrderInv
  <2>3. Pending' = Pending \cup {r}
      BY <2>1 DEF Pending, Enqueue
  <2>4. Cardinality(Pending) < MaxQueueSize
    <3>1. TypeOK /\ Len(entries) \in Nat /\ MaxQueueSize \in Nat
        BY OllamaAssumption, LenProperties DEF OrderInv, QueueInv, TypeOK, QueueOK
    <3>2. Len(entries) < MaxQueueSize
        BY <1>1 DEF HasRoom
    <3>. QED  BY <3>1, <3>2, PendingCount
  <2>5. r \notin Abstract!Known
      BY <2>1 DEF Abstract!Known, Range
  <2>6. Abstract!Submit(r, StandingBid(Owner[r]))
      BY <1>1, <2>3, <2>4, <2>5, CardinalityIs DEF Abstract!Submit, Enqueue
  <2>7. StandingBid(Owner[r]) \in Bids \cup {0, DefaultBid}
      BY StandingBidIs, OllamaAssumption
  <2>8. Abstract!Next
      BY <2>6, <2>7 DEF Abstract!Next
  <2>. QED  BY <2>1, <2>2, <2>8 DEF Refines
<1>2. CASE ~HasRoom(entries)
    BY <1>2, StutterRefines DEF Enqueue
<1>. QED  BY <1>1, <1>2

\* A changed bid reprices what waits of the container.
LEMMA SetBidRefines ==
    ASSUME OrderInv, NEW c \in Containers, NEW b \in Bids, SetBid(c, b)
    PROVE  Refines
<1>. DEFINE affected == {q \in Pending : Owner[q] = c}
<1>1. BidsOK' /\ Ordered' /\ Range(entries') = Range(entries)
    BY SetBidOrdered
<1>2. Pending' = Pending
    BY <1>1 DEF Pending, SetBid
<1>3. Range(entries') \subseteq Range(arrived')
    BY <1>1 DEF OrderInv, SetBid
<1>4. /\ bid' = [q \in Requests |-> IF q \in affected THEN b ELSE bid[q]]
      /\ repriced' = repriced \cup {q \in affected : bid[q] # b}
      /\ UNCHANGED <<proc, arrived>>
    BY DEF SetBid, controlVars
<1>5. CASE \E o \in Requests : Owner[o] = c
  <2>1. PICK o \in Requests : Owner[o] = c
      BY <1>5
  <2>2. Abstract!Reprice(Owner[o], b)
      BY <1>2, <1>4, <2>1 DEF Abstract!Reprice
  <2>3. Abstract!Next
      BY <2>2 DEF Abstract!Next
  <2>. QED  BY <1>1, <1>3, <2>3 DEF Refines
<1>6. CASE ~\E o \in Requests : Owner[o] = c
  <2>1. affected = {}
      BY <1>6, PendingType DEF OrderInv, QueueInv
  <2>2. bid' = bid /\ repriced' = repriced
      BY <1>4, <2>1 DEF OrderInv, BidsOK
  <2>. QED  BY <1>1, <1>2, <1>3, <1>4, <2>2 DEF Refines, Abstract!vars
<1>. QED  BY <1>5, <1>6

\* The entry that is taken outranks all others that wait.
LEMMA PopNextRefines ==
    ASSUME OrderInv, PopNext
    PROVE  Refines
<1>1. /\ entries \in Seq(Requests) /\ Distinct(entries)
      /\ proc.e = None
    BY DEF OrderInv, QueueInv, TypeOK, QueueOK, ControlOK, PopNext
<1>2. UNCHANGED <<bids, bid, cancelled, arrived, repriced>>
    BY DEF PopNext, entryVars, auxVars
<1>3. CASE Pending = {}
  <2>1. entries' = <<>> /\ proc'.e = None
      BY <1>3 DEF PopNext, Idle
  <2>2. Range(entries') = {} /\ Pending' = {} /\ \A r, o : ~Precedes(entries', r, o)
      BY <2>1 DEF Range, Pending, Precedes
  <2>. QED  BY <1>1, <1>2, <2>1, <2>2, WithdrawRefines
<1>4. CASE Pending # {}
  <2>1. PICK i \in DOMAIN entries :
            /\ ~cancelled[entries[i]]
            /\ \A j \in 1..(i - 1) : cancelled[entries[j]]
            /\ entries' = SubSeq(entries, i + 1, Len(entries))
            /\ proc' = [at |-> "taken", e |-> entries[i]]
      BY <1>4 DEF PopNext
  <2>. DEFINE r == entries[i]
  <2>2. DOMAIN entries = 1..Len(entries) /\ Len(entries) \in Nat
      BY <1>1, LenProperties
  <2>3. /\ Range(entries') = {entries[j] : j \in {k \in DOMAIN entries : i < k}}
        /\ \A k, l \in DOMAIN entries' : k < l => Precedes(entries, entries'[k], entries'[l])
      BY <1>1, <2>1, DroppedIs
  <2>4. \A q, o : Precedes(entries', q, o) => Precedes(entries, q, o)
      BY <2>3 DEF Precedes
  <2>5. Range(entries') \subseteq Range(entries)
      BY <2>3 DEF Range
  <2>6. BidsOK' /\ Ordered' /\ Range(entries') \subseteq Range(arrived')
      BY <1>2, <2>4, <2>5, FewerOrdered
  <2>7. r \in Pending /\ r \in Requests
      BY <1>1, <2>1, ElementOfSeq, LenProperties DEF Pending, Range
  <2>8. \A j \in DOMAIN entries : ~cancelled[entries[j]] => j = i \/ i < j
      BY <2>1, <2>2
  <2>9. Pending' = Pending \ {r}
    <3>1. \A j \in DOMAIN entries : i < j => entries[j] # r
        BY <1>1, <2>2 DEF Distinct
    <3>. QED  BY <1>2, <2>3, <2>8, <3>1 DEF Pending, Range
  <2>10. ASSUME NEW o \in Pending \ {r}
         PROVE  Abstract!Outranks(r, o)
    <3>1. PICK j \in DOMAIN entries : o = entries[j]
        BY DEF Pending, Range
    <3>2. i < j
        BY <2>8, <3>1 DEF Pending
    <3>3. Precedes(entries, r, o)
        BY <3>1, <3>2 DEF Precedes
    <3>4. Outranks(r, o)
        BY <3>3 DEF OrderInv, Ordered
    <3>. QED  BY <3>4, OutranksIs
  <2>11. proc'.e = r
      BY <2>1
  <2>. HIDE DEF r
  <2>12. Abstract!Take(r)
      BY <1>1, <1>2, <2>7, <2>9, <2>10, <2>11 DEF Abstract!Take
  <2>13. Abstract!Next
      BY <2>7, <2>12 DEF Abstract!Next
  <2>. QED  BY <2>6, <2>13 DEF Refines
<1>. QED  BY <1>3, <1>4

\* Answering only cancels what waits.
LEMMA AnswerCancels ==
    ASSUME QueueInv, NEW rs, NEW R, Answer(rs, R)
    PROVE  \A q \in Requests : ~cancelled'[q] <=> ~cancelled[q] /\ q \notin rs
BY DEF Answer

\* What is dropped from the queue was withdrawn.
LEMMA AnsweredRefines ==
    ASSUME OrderInv, UNCHANGED <<bids, bid, proc.e, arrived, repriced>>,
           NEW rs, NEW R, Answer(rs, R), NEW gone, entries' \in Without(entries, gone)
    PROVE  Refines
<1>1. /\ Range(entries') = Range(entries) \ gone
      /\ \A r, o : Precedes(entries', r, o) => Precedes(entries, r, o)
    BY WithoutOrdered
<1>2. Range(entries) \subseteq Requests
    BY QueueRange DEF OrderInv, QueueInv, TypeOK, QueueOK
<1>3. \A q \in Requests : ~cancelled'[q] => ~cancelled[q]
    BY AnswerCancels DEF OrderInv
<1>4. Pending' \subseteq Pending
    BY <1>1, <1>2, <1>3 DEF Pending
<1>. QED  BY <1>1, <1>4, WithdrawRefines

\* The steps of HandleRequest.
LEMMA HandlerRefines ==
    ASSUME OrderInv, NEW r \in Requests, Handler(r)
    PROVE  Refines
<1>. USE DEF queueVars, entryVars, auxVars
<1>1. CASE CheckOthers(r) \/ Signal(r) \/ Receive(r)
    BY <1>1, StutterRefines DEF CheckOthers, Signal, Receive
<1>2. CASE Enqueue(r)
    BY <1>2, EnqueueRefines
<1>3. CASE Expire(r) \/ Leave(r)
  <2>1. PICK label \in {"expired", "left"} : GiveUp(r, label)
      BY <1>3 DEF Expire, Leave
  <2>2. /\ entries' = entries
        /\ cancelled' = [cancelled EXCEPT ![r] = TRUE]
        /\ UNCHANGED <<bids, bid, proc.e, arrived, repriced>>
      BY <2>1 DEF GiveUp
  <2>3. Range(entries') = Range(entries) /\ \A q, o : Precedes(entries', q, o) => Precedes(entries, q, o)
      BY <2>2 DEF Range, Precedes
  <2>4. Range(entries) \subseteq Requests
      BY QueueRange DEF OrderInv, QueueInv, TypeOK, QueueOK
  <2>5. \A q \in Requests : ~cancelled'[q] => ~cancelled[q]
      BY <2>2 DEF OrderInv, QueueInv, TypeOK, EntriesOK
  <2>6. Pending' \subseteq Pending
      BY <2>3, <2>4, <2>5 DEF Pending
  <2>. QED  BY <2>2, <2>3, <2>6, WithdrawRefines
<1>4. CASE RemoveEntry(r)
  <2>1. /\ entries' \in Without(entries, {r})
        /\ UNCHANGED <<bids, bid, cancelled, proc.e, arrived, repriced>>
      BY <1>4 DEF RemoveEntry
  <2>2. /\ Range(entries') = Range(entries) \ {r}
        /\ \A q, o : Precedes(entries', q, o) => Precedes(entries, q, o)
      BY <2>1, WithoutOrdered
  <2>3. Pending' \subseteq Pending
      BY <2>1, <2>2 DEF Pending
  <2>. QED  BY <2>1, <2>2, <2>3, WithdrawRefines
<1>. QED  BY <1>1, <1>2, <1>3, <1>4 DEF Handler

\* The steps of the processor.
LEMMA ProcessorRefines ==
    ASSUME OrderInv, Processor
    PROVE  Refines
<1>. USE DEF queueVars, entryVars, auxVars, ProcAt
<1>1. proc \in [at : ProcLabels, e : Requests \cup {None}]
    BY DEF OrderInv, QueueInv, TypeOK, ControlOK
<1>2. CASE Wake \/ Quit \/ Activate \/ Send \/ Run \/ Bill \/ Reply
    BY <1>1, <1>2, StutterRefines DEF Wake, Quit, Activate, Send, Run, Bill, Reply
<1>3. CASE PopNext
    BY <1>3, PopNextRefines
<1>4. CASE Deactivate
  <2>1. /\ UNCHANGED <<entries, bids, bid, cancelled, arrived, repriced>>
        /\ proc'.e = None /\ proc.e # None
      BY <1>4 DEF Deactivate, OrderInv, QueueInv, TypeOK, ControlOK
  <2>2. Range(entries') = Range(entries) /\ \A q, o : Precedes(entries', q, o) => Precedes(entries, q, o)
      BY <2>1 DEF Range, Precedes
  <2>3. Pending' = Pending
      BY <2>1, <2>2 DEF Pending
  <2>4. BidsOK' /\ Ordered' /\ Range(entries') \subseteq Range(arrived')
      BY <2>1, <2>2, FewerOrdered
  <2>5. Abstract!Next
      BY <2>1, <2>3 DEF Abstract!Finish, Abstract!Next
  <2>. QED  BY <2>4, <2>5 DEF Refines
<1>. QED  BY <1>2, <1>3, <1>4 DEF Processor

\* The calls from the API.
LEMMA ApiRefines ==
    ASSUME OrderInv, API
    PROVE  Refines
<1>. USE DEF queueVars, entryVars, auxVars, controlVars
<1>1. ASSUME NEW c \in Containers, NEW b \in Bids, SetBid(c, b)
      PROVE  Refines
    BY <1>1, SetBidRefines
<1>2. ASSUME NEW c \in Containers, CancelEntry(c)
      PROVE  Refines
  <2>1. PICK r \in Pending : Answer({r}, {}) /\ entries' \in Without(entries, {r})
      BY <1>2 DEF CancelEntry
  <2>2. UNCHANGED <<bids, bid, proc.e, arrived, repriced>>
      BY <1>2 DEF CancelEntry
  <2>. QED  BY <2>1, <2>2, AnsweredRefines
<1>3. ASSUME NEW c \in Containers, CancelAllPending(c)
      PROVE  Refines
    BY <1>3, AnsweredRefines DEF CancelAllPending, DropAll
<1>4. ASSUME NEW c \in Containers, RemoveContainer(c)
      PROVE  Refines
  <2>1. /\ DropAll(c)
        /\ bids' = [bids EXCEPT ![c] = 0]
        /\ UNCHANGED <<bid, proc.e, arrived, repriced>>
      BY <1>4 DEF RemoveContainer
  <2>2. /\ Range(entries') = Range(entries) \ {r \in Requests : Owner[r] = c}
        /\ \A r, o : Precedes(entries', r, o) => Precedes(entries, r, o)
      BY <2>1, WithoutOrdered DEF DropAll
  <2>3. Range(entries) \subseteq Requests
      BY QueueRange DEF OrderInv, QueueInv, TypeOK, QueueOK
  <2>4. \A q \in Requests : ~cancelled'[q] => ~cancelled[q]
      BY <2>1, AnswerCancels DEF OrderInv, DropAll
  <2>5. Pending' \subseteq Pending
      BY <2>2, <2>3, <2>4 DEF Pending
  <2>6. BidsOK'
      BY <2>1 DEF OrderInv, BidsOK
  <2>7. \A r, o : Outranks(r, o) => Outranks(r, o)'
      BY <2>1, OutranksKept
  <2>8. Ordered' /\ Range(entries') \subseteq Range(arrived')
      BY <2>1, <2>2, <2>7 DEF OrderInv, Ordered
  <2>9. Abstract!Withdraw(Pending \ Pending')
      BY <2>1, <2>5 DEF Abstract!Withdraw
  <2>10. Pending \ Pending' \in SUBSET Pending
      OBVIOUS
  <2>11. Abstract!Next
      BY <2>9, <2>10 DEF Abstract!Next
  <2>. QED  BY <2>6, <2>8, <2>11 DEF Refines
<1>5. CASE Stop
    BY <1>5, StutterRefines DEF Stop
<1>6. CASE Drain
  <2>1. entries' = <<>> /\ UNCHANGED <<bids, bid, proc.e, arrived, repriced>>
      BY <1>6 DEF Drain
  <2>2. Range(entries') = {} /\ Pending' = {} /\ \A r, o : ~Precedes(entries', r, o)
      BY <2>1 DEF Range, Pending, Precedes
  <2>. QED  BY <2>1, <2>2, WithdrawRefines
<1>. QED  BY <1>1, <1>2, <1>3, <1>4, <1>5, <1>6 DEF API

\* What clients do.
LEMMA ClientRefines ==
    ASSUME OrderInv, Client
    PROVE  Refines
BY StutterRefines DEF Client, Call, Disconnect, queueVars, entryVars, auxVars, controlVars

\* Every step.
LEMMA NextRefines ==
    ASSUME OrderInv, [Next]_vars
    PROVE  Refines
<1>1. CASE UNCHANGED vars
    BY <1>1, StutterRefines DEF vars, queueVars, entryVars, controlVars, auxVars
<1>. QED  BY <1>1, HandlerRefines, ProcessorRefines, ApiRefines, ClientRefines DEF Next

\* No step cancels or queues a call that then has no entry yet.
LEMMA NextBeforeQueue ==
    ASSUME OrderInv, [Next]_vars
    PROVE  BeforeQueue'
<1>. USE DEF queueVars, entryVars, auxVars, controlVars, HandlerAt, ProcAt
<1>1. /\ handler \in [Requests -> HandlerLabels]
      /\ cancelled \in [Requests -> BOOLEAN]
      /\ arrived \in Seq(Requests)
      /\ BeforeQueue
    BY DEF OrderInv, QueueInv, TypeOK, ControlOK, EntriesOK
<1>. DEFINE Early == {"new", "check", "enqueue"}
<1>2. ASSUME UNCHANGED <<handler, cancelled, arrived>>
      PROVE  BeforeQueue'
  <2>1. Range(arrived') = Range(arrived)
      BY <1>2 DEF Range
  <2>. QED  BY <1>1, <1>2, <2>1 DEF BeforeQueue
<1>3. ASSUME NEW rs \in SUBSET Pending, NEW R, Answer(rs, R), UNCHANGED <<handler, arrived>>
      PROVE  BeforeQueue'
  <2>1. Range(arrived') = Range(arrived)
      BY <1>3 DEF Range
  <2>2. \A q \in rs : handler[q] \notin Early
      BY PendingType DEF OrderInv, QueueInv, EntryOK, Pending
  <2>3. \A q \in Requests : cancelled'[q] = (cancelled[q] \/ q \in rs)
      BY <1>3 DEF Answer
  <2>. QED  BY <1>1, <1>3, <2>1, <2>2, <2>3 DEF BeforeQueue
<1>4. ASSUME NEW r \in Requests, NEW label, handler' = [handler EXCEPT ![r] = label],
             handler[r] \in Early \/ label \notin Early,
             UNCHANGED <<cancelled, arrived>>
      PROVE  BeforeQueue'
  <2>1. Range(arrived') = Range(arrived)
      BY <1>4 DEF Range
  <2>. QED  BY <1>1, <1>4, <2>1 DEF BeforeQueue
<1>5. ASSUME NEW r \in Requests, Handler(r)
      PROVE  BeforeQueue'
  <2>1. CASE CheckOthers(r) \/ Signal(r) \/ Receive(r) \/ RemoveEntry(r)
      BY <1>4, <2>1 DEF CheckOthers, Signal, Receive, RemoveEntry
  <2>2. CASE Enqueue(r)
    <3>1. CASE HasRoom(entries)
      <4>1. Range(arrived') = Range(arrived) \cup {r}
          BY <2>2, <3>1, EnqueueOrdered
      <4>2. handler' = [handler EXCEPT ![r] = "signal"] /\ UNCHANGED cancelled
          BY <2>2, <3>1 DEF Enqueue
      <4>. QED  BY <1>1, <4>1, <4>2 DEF BeforeQueue
    <3>2. CASE ~HasRoom(entries)
        BY <1>4, <2>2, <3>2 DEF Enqueue
    <3>. QED  BY <3>1, <3>2
  <2>3. CASE Expire(r) \/ Leave(r)
    <3>1. PICK label \in {"expired", "left"} : GiveUp(r, label)
        BY <2>3 DEF Expire, Leave
    <3>2. /\ handler' = [handler EXCEPT ![r] = label]
          /\ cancelled' = [cancelled EXCEPT ![r] = TRUE]
          /\ UNCHANGED arrived
        BY <3>1 DEF GiveUp
    <3>3. Range(arrived') = Range(arrived)
        BY <3>2 DEF Range
    <3>. QED  BY <1>1, <3>2, <3>3 DEF BeforeQueue
  <2>. QED  BY <1>5, <2>1, <2>2, <2>3 DEF Handler
<1>6. CASE Processor
    BY <1>2, <1>6 DEF Processor, Wake, Quit, PopNext, Activate, Send, Run, Bill, Reply, Deactivate
<1>7. CASE API
  <2>1. ASSUME NEW c \in Containers, NEW b \in Bids, SetBid(c, b)
        PROVE  BeforeQueue'
      BY <1>2, <2>1 DEF SetBid
  <2>2. ASSUME NEW c \in Containers, CancelEntry(c)
        PROVE  BeforeQueue'
    <3>1. PICK r \in Pending : Answer({r}, {})
        BY <2>2 DEF CancelEntry
    <3>2. UNCHANGED <<handler, arrived>> /\ {r} \in SUBSET Pending
        BY <2>2 DEF CancelEntry
    <3>. QED  BY <1>3, <3>1, <3>2
  <2>3. ASSUME NEW c \in Containers, CancelAllPending(c) \/ RemoveContainer(c)
        PROVE  BeforeQueue'
    <3>. DEFINE rs == {r \in Pending : Owner[r] = c}
    <3>1. Answer(rs, ActiveOf(c)) /\ UNCHANGED <<handler, arrived>>
        BY <2>3 DEF CancelAllPending, RemoveContainer, DropAll
    <3>2. rs \in SUBSET Pending
        OBVIOUS
    <3>. HIDE DEF rs
    <3>. QED  BY <1>3, <3>1, <3>2
  <2>4. CASE Stop
      BY <1>2, <2>4 DEF Stop
  <2>5. CASE Drain
    <3>1. Answer(Pending, {active} \ {None}) /\ UNCHANGED <<handler, arrived>>
        BY <2>5 DEF Drain
    <3>. QED  BY <1>3, <3>1
  <2>. QED  BY <1>7, <2>1, <2>2, <2>3, <2>4, <2>5 DEF API
<1>8. CASE Client
  <2>1. PICK r \in Requests : Call(r) \/ Disconnect(r)
      BY <1>8 DEF Client
  <2>2. CASE Call(r)
      BY <1>4, <2>2 DEF Call
  <2>3. CASE Disconnect(r)
      BY <1>2, <2>3 DEF Disconnect
  <2>. QED  BY <2>1, <2>2, <2>3
<1>9. CASE UNCHANGED vars
    BY <1>2, <1>9 DEF vars
<1>. QED  BY <1>5, <1>6, <1>7, <1>8, <1>9 DEF Next

\* The start of the queue is a start of BidQueue.
LEMMA InitRefines == Init => Abstract!Init
<1>. SUFFICES ASSUME Init PROVE Abstract!Init
    OBVIOUS
<1>1. Pending = {}
    BY DEF Init, Pending, Range
<1>. QED  BY <1>1 DEF Init, Idle, Abstract!Init

\* For any number of requests and containers, any bids, and whatever is cancelled,
\* timed out or re-bid: one request is served at a time and once, the highest bid first
\* and equal bids in order of arrival, and no more than MaxQueueSize requests wait.
THEOREM QueueImplementsBidQueue == Spec => ImplementsBidQueue
<1>1. OrderInv /\ [Next]_vars => OrderInv'
    BY NextQueueInv, NextRefines, NextBeforeQueue DEF OrderInv, Refines
<1>2. Spec => []OrderInv
    BY InitOrder, <1>1, PTL DEF Spec
<1>3. OrderInv /\ [Next]_vars => [Abstract!Next]_(Abstract!vars)
    BY NextRefines DEF Refines
<1>. QED  BY <1>2, InitRefines, <1>3, PTL DEF Spec, ImplementsBidQueue, Abstract!Spec

-----------------------------------------------------------------------------
(* Who gives up before Ollama has answered is not charged. *)

\* Neither the handlers nor the clients answer a request or move the processor, and a
\* request that was not let in stays out.
LEMMA OutsideKeepsUnanswered ==
    ASSUME QueueInv, NEW r \in Requests, (\E q \in Requests : Handler(q)) \/ Client
    PROVE  /\ UNCHANGED <<resultCh, proc>>
           /\ ctx[r] # "live" => ctx'[r] # "live"
           /\ handler[r] \in {"refused", "full"} => handler'[r] = handler[r]
<1>. USE DEF HandlerAt, QueueInv, TypeOK, ControlOK, EntriesOK
<1>1. PICK q \in Requests : Handler(q) \/ Call(q) \/ Disconnect(q)
    BY DEF Client
<1>2. CASE CheckOthers(q) \/ Enqueue(q) \/ Signal(q) \/ Receive(q) \/ RemoveEntry(q) \/ Call(q)
    BY <1>2 DEF CheckOthers, Enqueue, Signal, Receive, RemoveEntry, Call, entryVars
<1>3. CASE Expire(q) \/ Leave(q)
    BY <1>3 DEF Expire, Leave, GiveUp, Cancel
<1>4. CASE Disconnect(q)
    BY <1>4 DEF Disconnect, controlVars
<1>. QED  BY <1>1, <1>2, <1>3, <1>4 DEF Handler

\* The API cancels contexts and withdraws what waits.
LEMMA ApiKeepsUnanswered ==
    ASSUME QueueInv, NEW r \in Requests, API
    PROVE  /\ UNCHANGED <<handler, proc>>
           /\ ctx[r] # "live" => ctx'[r] # "live"
           /\ resultCh'[r] = resultCh[r] \/ resultCh'[r] = Append(resultCh[r], "withdrawn")
<1>. USE DEF controlVars
<1>1. ASSUME NEW rs, NEW R, Answer(rs, R)
      PROVE  /\ ctx[r] # "live" => ctx'[r] # "live"
             /\ resultCh'[r] = resultCh[r] \/ resultCh'[r] = Append(resultCh[r], "withdrawn")
    BY <1>1 DEF Answer, Cancel
<1>2. ASSUME NEW c \in Containers, NEW b \in Bids, SetBid(c, b)
      PROVE  UNCHANGED <<ctx, resultCh, handler, proc>>
    BY <1>2 DEF SetBid
<1>3. ASSUME NEW c \in Containers, CancelEntry(c) \/ CancelAllPending(c) \/ RemoveContainer(c)
      PROVE  (\E rs, R : Answer(rs, R)) /\ UNCHANGED <<handler, proc>>
    BY <1>3 DEF CancelEntry, CancelAllPending, RemoveContainer, DropAll
<1>4. CASE Stop
    BY <1>4 DEF Stop, entryVars
<1>5. CASE Drain
    BY <1>1, <1>5 DEF Drain
<1>. QED  BY <1>1, <1>2, <1>3, <1>4, <1>5 DEF API

\* A request that was given up unanswered stays so.
LEMMA StaysUnanswered ==
    ASSUME QueueInv, [Next]_vars, NEW r \in Requests, GivenUp(r), ~Answered(r)
    PROVE  GivenUp(r)' /\ ~Answered(r)'
<1>1. EntryOK(r) /\ resultCh[r] \in Seq(Results)
    BY DEF QueueInv, TypeOK, EntriesOK
<1>2. \A x \in Results : Range(Append(resultCh[r], x)) = Range(resultCh[r]) \cup {x}
    BY <1>1, AppendedIs
<1>0. proc \in [at : ProcLabels, e : Requests \cup {None}]
    BY DEF QueueInv, TypeOK, ControlOK
<1>3. CASE (\E q \in Requests : Handler(q)) \/ Client
    BY <1>3, OutsideKeepsUnanswered DEF GivenUp, Answered
<1>4. CASE API
    <2>1. /\ UNCHANGED <<handler, proc>>
          /\ ctx[r] # "live" => ctx'[r] # "live"
          /\ resultCh'[r] = resultCh[r] \/ resultCh'[r] = Append(resultCh[r], "withdrawn")
        BY <1>4, ApiKeepsUnanswered
    <2>. QED  BY <1>2, <2>1 DEF GivenUp, Answered, Results
<1>5. CASE Processor
    <2>1. UNCHANGED <<ctx, handler>>
        BY <1>5 DEF Processor, Wake, Quit, PopNext, Activate, Send, Run, Bill, Reply,
                    Deactivate, entryVars
    <2>2. CASE Wake \/ Quit \/ PopNext \/ Activate \/ Send \/ Deactivate
        <3>1. UNCHANGED resultCh /\ proc'.at \notin {"bill", "reply"}
            BY <2>2, <1>0 DEF Wake, Quit, PopNext, Activate, Send, Deactivate, ProcAt,
                                   Idle, entryVars
        <3>2. proc # [at |-> "fail", e |-> r]
            BY <2>2 DEF Wake, Quit, PopNext, Activate, Send, Deactivate
        <3>. QED  BY <2>1, <3>1, <3>2 DEF GivenUp, Answered
    <2>3. CASE Run
        <3>1. /\ UNCHANGED resultCh /\ proc.at = "run" /\ proc'.e = proc.e
              /\ proc'.at = "fail" \/ (proc'.at = "bill" /\ ctx[proc.e] = "live")
            BY <2>3, <1>0 DEF Run, ProcAt, entryVars
        <3>2. CASE proc.e = r
            <4>1. ctx[r] # "live" \/ handler[r] \in {"refused", "full"}
                     \/ Range(resultCh[r]) # {}
                BY <3>1 DEF GivenUp
            <4>2. resultCh[r] = <<>> /\ handler[r] \notin {"refused", "full"}
                BY <1>1, <3>1, <3>2 DEF EntryOK
            <4>3. Range(<<>>) = {}
                BY DEF Range
            <4>. QED  BY <2>1, <3>1, <3>2, <4>1, <4>2, <4>3 DEF GivenUp, Answered
        <3>3. CASE proc.e # r
            BY <2>1, <3>1, <3>3 DEF GivenUp, Answered
        <3>. QED  BY <3>2, <3>3
    <2>4. CASE Bill
        <3>1. UNCHANGED resultCh /\ proc.at = "bill" /\ proc'.e = proc.e
            BY <2>4, <1>0 DEF Bill, ProcAt, entryVars
        <3>. QED  BY <2>1, <3>1 DEF GivenUp, Answered
    <2>5. CASE Reply
        <3>1. /\ proc.at \in {"reply", "fail"} /\ proc'.at = "clear" /\ proc'.e = proc.e
              /\ resultCh' = [resultCh EXCEPT ![proc.e] =
                                 Append(@, IF proc.at = "reply" THEN "answered" ELSE "failed")]
            BY <2>5, <1>0 DEF Reply, ProcAt
        <3>2. CASE proc.e = r
            <4>1. proc.at = "fail"
                BY <3>1, <3>2 DEF Answered
            <4>2. Range(resultCh'[r]) = Range(resultCh[r]) \cup {"failed"}
                BY <1>2, <3>1, <3>2, <4>1 DEF Results, QueueInv, TypeOK, EntriesOK
            <4>. QED  BY <2>1, <3>1, <4>2 DEF GivenUp, Answered
        <3>3. CASE proc.e # r
            <4>1. resultCh'[r] = resultCh[r]
                BY <3>1, <3>3
            <4>. QED  BY <2>1, <3>1, <3>3, <4>1 DEF GivenUp, Answered
        <3>. QED  BY <3>2, <3>3
    <2>. QED  BY <1>5, <2>2, <2>3, <2>4, <2>5 DEF Processor
<1>6. CASE UNCHANGED vars
    BY <1>6 DEF vars, entryVars, controlVars, GivenUp, Answered
<1>. QED  BY <1>3, <1>4, <1>5, <1>6 DEF Next

\* A request that is given up before Ollama has answered it (by its client, its timeout, a
\* freeze, a removal, the shutdown, or because the call failed) is never charged.
THEOREM UnansweredStaysFree == Spec => UnansweredIsFree
<1>1. ASSUME NEW r \in Requests
      PROVE  Spec => [](GivenUp(r) /\ ~Answered(r) => [](r \notin charged))
    <2>1. QueueInv /\ [Next]_vars /\ (GivenUp(r) /\ ~Answered(r)) => (GivenUp(r) /\ ~Answered(r))'
        BY StaysUnanswered
    <2>2. QueueInv /\ (GivenUp(r) /\ ~Answered(r)) => r \notin charged
        <3>1. "answered" \in Range(<<"answered">>)
            BY DEF Range
        <3>2. QueueInv /\ r \in charged => resultCh[r] = <<"answered">> \/ (proc.e = r /\ proc.at = "reply")
            BY DEF QueueInv, EntryOK
        <3>. QED  BY <3>1, <3>2 DEF Answered
    <2>. QED  BY QueueCorrect, <2>1, <2>2, PTL DEF Spec
<1>. QED  BY <1>1 DEF UnansweredIsFree
=============================================================================
