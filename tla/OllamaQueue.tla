---------------------------- MODULE OllamaQueue ----------------------------
(***************************************************************************)
(* The Ollama inference queue (internal/ollama): one HandleRequest call per *)
(* request, the processor goroutine that serves one request at a time, the  *)
(* API calls that change bids and cancel requests, and shutdown.            *)
(*                                                                         *)
(* Every lock region is one action; so is every step that reads or writes   *)
(* an entry's cancelled flag, context or result channel outside the lock.   *)
(* A request that gives up sets its flag and cancels its context in one     *)
(* action: nothing reads both.  Events on the bus never block and are left  *)
(* out, as is the storing of bids, which nothing here reads back.           *)
(***************************************************************************)
EXTENDS Naturals, Sequences, FiniteSets, SequencesExt

CONSTANTS
    Requests,       \* the calls of HandleRequest, one entry each
    Containers,
    Owner,          \* the container each request comes from
    Bids,           \* the bids a container may set
    DefaultBid,     \* Config.DefaultBid
    MaxQueueSize,   \* Config.MaxQueueSize
    Limited,        \* the containers with a spending limit
    None,           \* no request
    \* Bounds on the environment
    Timed,          \* requests with a queue_timeout
    Leaving,        \* requests whose client may disconnect
    Bidding,        \* containers whose bid may be changed
    Cancelling,     \* containers whose requests may be cancelled
    MayStop         \* whether the queue may be shut down

ASSUME OllamaAssumption ==
    /\ Owner \in [Requests -> Containers]
    /\ Bids \subseteq Nat
    /\ DefaultBid \in Nat
    /\ MaxQueueSize \in Nat
    /\ None \notin Requests
    /\ MayStop \in BOOLEAN

VARIABLES
    \* the queue, under its mutex
    entries,     \* sequence of requests
    active,      \* the request being processed by Ollama
    bids,        \* standing bid of each container, 0 when there is none
    \* the entries
    bid,         \* e.bid
    cancelled,   \* e.cancelled
    ctx,         \* e.ctx: live, cancelled, or done because the client is gone
    resultCh,    \* what has been sent on e.resultCh
    \* control
    handler,     \* where each HandleRequest call is, or how it ended
    proc,        \* where the processor is, and its entry
    wake,        \* a token is in q.wake
    stopping,    \* shutdown: not begun, q.done closed, queue drained
    \* the proxy
    charged,     \* the requests their containers were charged for
    \* auxiliary: read by no guard
    arrived,     \* the requests in the order they were appended
    repriced     \* those whose bid was changed while they waited

queueVars == <<entries, active, bids>>
entryVars == <<bid, cancelled, ctx, resultCh>>
controlVars == <<handler, proc, wake, stopping>>
auxVars == <<arrived, repriced>>
vars == <<queueVars, entryVars, controlVars, charged, auxVars>>

Idle == [at |-> "sleep", e |-> None]

Init ==
    /\ entries = <<>>
    /\ active = None
    /\ bids = [c \in Containers |-> 0]
    /\ bid = [r \in Requests |-> 0]
    /\ cancelled = [r \in Requests |-> FALSE]
    /\ ctx = [r \in Requests |-> "live"]
    /\ resultCh = [r \in Requests |-> <<>>]
    /\ handler = [r \in Requests |-> "new"]
    /\ proc = Idle
    /\ wake = FALSE
    /\ stopping = "no"
    /\ charged = {}
    /\ arrived = <<>>
    /\ repriced = {}

-----------------------------------------------------------------------------
(* Helpers.  The entries of a queue are distinct, so that exactly one sequence *)
(* is the rest of it, or its stable sort.                                      *)

Precedes(s, a, b) == \E i, j \in DOMAIN s : i < j /\ s[i] = a /\ s[j] = b

\* What is left of s without the members of R.
Without(s, R) ==
    {t \in SetToSeqs(Range(s) \ R) :
        \A i, j \in DOMAIN t : i < j => Precedes(s, t[i], t[j])}

\* Mutant: the sort is not stable.
SortedUnstable(s, b) ==
    {t \in SetToSeqs(Range(s)) : \A i, j \in DOMAIN t : i < j => b[t[i]] >= b[t[j]]}

\* sortEntries: highest bid first, otherwise as before.
Sorted(s, b) ==
    {t \in SetToSeqs(Range(s)) :
        \A i, j \in DOMAIN t : i < j =>
            \/ b[t[i]] > b[t[j]]
            \/ b[t[i]] = b[t[j]] /\ Precedes(s, t[i], t[j])}

Pending == {r \in Range(entries) : ~cancelled[r]}

Cancel(R) == [r \in Requests |-> IF r \in R /\ ctx[r] = "live" THEN "cancelled" ELSE ctx[r]]

HandlerAt(r, label) == handler' = [handler EXCEPT ![r] = label]
ProcAt(label) == proc' = [proc EXCEPT !.at = label]

-----------------------------------------------------------------------------
(* HandleRequest. *)

\* What has been charged may have used up the limit of a container.
MayBeOverLimit(c) == c \in Limited /\ \E r \in charged : Owner[r] = c

\* Validation and the check of the container's spending.
Call(r) ==
    /\ handler[r] = "new"
    /\ \/ HandlerAt(r, "check")
       \/ MayBeOverLimit(Owner[r]) /\ HandlerAt(r, "refused")
    /\ UNCHANGED <<queueVars, entryVars, proc, wake, stopping, charged, auxVars>>

\* One request per container: the active one and those that wait are looked at.
CheckOthers(r) ==
    /\ handler[r] = "check"
    /\ LET others == {o \in Pending \cup {active} : o # None /\ Owner[o] = Owner[r]} IN
       HandlerAt(r, IF others = {} THEN "enqueue" ELSE "refused")
    /\ UNCHANGED <<queueVars, entryVars, proc, wake, stopping, charged, auxVars>>

StandingBid(c) == IF bids[c] = 0 THEN DefaultBid ELSE bids[c]

\* Mutant: the size of the queue is checked after the entry was appended.
HasRoomAfter(s) == Len(s) <= MaxQueueSize

HasRoom(s) == Len(s) < MaxQueueSize

\* Another lock region: the size is checked, but not the container's other requests.
Enqueue(r) ==
    /\ handler[r] = "enqueue"
    /\ IF HasRoom(entries)
       THEN /\ bid' = [bid EXCEPT ![r] = StandingBid(Owner[r])]
            /\ entries' \in Sorted(Append(entries, r), bid')
            /\ arrived' = Append(arrived, r)
            /\ HandlerAt(r, "signal")
       ELSE /\ HandlerAt(r, "full")
            /\ UNCHANGED <<bid, entries, arrived>>
    /\ UNCHANGED <<active, bids, cancelled, ctx, resultCh, proc, wake, stopping, charged, repriced>>

\* Mutant: only a request that finds the queue empty wakes the processor.
SignalIfFirst(r) ==
    /\ handler[r] = "signal"
    /\ wake' = (wake \/ Len(entries) = 1)
    /\ HandlerAt(r, "wait")
    /\ UNCHANGED <<queueVars, entryVars, proc, stopping, charged, auxVars>>

\* The send on q.wake does not block: a token that is there already will do.
Signal(r) ==
    /\ handler[r] = "signal"
    /\ wake' = TRUE
    /\ HandlerAt(r, "wait")
    /\ UNCHANGED <<queueVars, entryVars, proc, stopping, charged, auxVars>>

\* The select statement: whichever of the three is ready.
Receive(r) ==
    /\ handler[r] = "wait"
    /\ resultCh[r] # <<>>
    /\ HandlerAt(r, IF Head(resultCh[r]) = "answered" THEN "answered" ELSE "failed")
    /\ UNCHANGED <<queueVars, entryVars, proc, wake, stopping, charged, auxVars>>

GiveUp(r, label) ==
    /\ handler[r] = "wait"
    /\ cancelled' = [cancelled EXCEPT ![r] = TRUE]
    /\ ctx' = Cancel({r})
    /\ HandlerAt(r, label)
    /\ UNCHANGED <<queueVars, bid, resultCh, proc, wake, stopping, charged, auxVars>>

Expire(r) == r \in Timed /\ GiveUp(r, "expired")
Leave(r)  == ctx[r] = "gone" /\ GiveUp(r, "left")

\* Mutant: the entry of a request that gave up stays in the queue.
RemoveEntryLater(r) ==
    /\ handler[r] \in {"expired", "left"}
    /\ HandlerAt(r, IF handler[r] = "expired" THEN "timeout" ELSE "gone")
    /\ UNCHANGED <<queueVars, entryVars, proc, wake, stopping, charged, auxVars>>

RemoveEntry(r) ==
    /\ handler[r] \in {"expired", "left"}
    /\ entries' \in Without(entries, {r})
    /\ HandlerAt(r, IF handler[r] = "expired" THEN "timeout" ELSE "gone")
    /\ UNCHANGED <<active, bids, entryVars, proc, wake, stopping, charged, auxVars>>

\* The steps of a call that has begun.
Handler(r) ==
    \/ CheckOthers(r) \/ Enqueue(r) \/ Signal(r) \/ Receive(r)
    \/ Expire(r) \/ Leave(r) \/ RemoveEntry(r)

-----------------------------------------------------------------------------
(* The processor: processLoop, popNext and processEntry. *)

Wake ==
    /\ proc.at = "sleep"
    /\ wake
    /\ wake' = FALSE
    /\ ProcAt("pop")
    /\ UNCHANGED <<queueVars, entryVars, handler, stopping, charged, auxVars>>

\* q.done is closed; the select may still prefer a token.
Quit ==
    /\ proc.at = "sleep"
    /\ stopping # "no"
    /\ ProcAt("quit")
    /\ UNCHANGED <<queueVars, entryVars, handler, wake, stopping, charged, auxVars>>

\* Mutant: the entry that is taken stays at the head of the queue.
PopNextPeeks ==
    /\ proc.at = "pop"
    /\ IF Pending = {}
       THEN /\ entries' = <<>>
            /\ proc' = Idle
       ELSE \E i \in DOMAIN entries :
            /\ ~cancelled[entries[i]]
            /\ \A j \in 1..(i - 1) : cancelled[entries[j]]
            /\ entries' = SubSeq(entries, i, Len(entries))
            /\ proc' = [at |-> "taken", e |-> entries[i]]
    /\ UNCHANGED <<active, bids, entryVars, handler, wake, stopping, charged, auxVars>>

\* Cancelled entries at the head are dropped; the first other one is taken.
PopNext ==
    /\ proc.at = "pop"
    /\ IF Pending = {}
       THEN /\ entries' = <<>>
            /\ proc' = Idle
       ELSE \E i \in DOMAIN entries :
            /\ ~cancelled[entries[i]]
            /\ \A j \in 1..(i - 1) : cancelled[entries[j]]
            /\ entries' = SubSeq(entries, i + 1, Len(entries))
            /\ proc' = [at |-> "taken", e |-> entries[i]]
    /\ UNCHANGED <<active, bids, entryVars, handler, wake, stopping, charged, auxVars>>

\* Until here the entry is neither in the queue nor active.
Activate ==
    /\ proc.at = "taken"
    /\ active' = proc.e
    /\ ProcAt("send")
    /\ UNCHANGED <<entries, bids, entryVars, handler, wake, stopping, charged, auxVars>>

\* The request to Ollama; with a context that is done it is not sent.
Send ==
    /\ proc.at = "send"
    /\ \/ ctx[proc.e] = "live" /\ ProcAt("run")
       \/ ProcAt("fail")
    /\ UNCHANGED <<queueVars, entryVars, handler, wake, stopping, charged, auxVars>>

\* Mutant: the call to Ollama is not ended by the context of the entry.
RunDetached ==
    /\ proc.at = "run"
    /\ ProcAt("bill") \/ ProcAt("fail")
    /\ UNCHANGED <<queueVars, entryVars, handler, wake, stopping, charged, auxVars>>

\* Ollama answers, with any HTTP status, or the call ends without an answer: by a
\* transport error, a body that cannot be read, the timeout or the context.
Run ==
    /\ proc.at = "run"
    /\ \/ ctx[proc.e] = "live" /\ ProcAt("bill")
       \/ ProcAt("fail")
    /\ UNCHANGED <<queueVars, entryVars, handler, wake, stopping, charged, auxVars>>

\* AddSpending, unless wall time times bid is less than a milli-cent.  Neither the
\* status of the answer nor the context is looked at any more.
Bill ==
    /\ proc.at = "bill"
    /\ \/ bid[proc.e] > 0 /\ charged' = charged \cup {proc.e}
       \/ UNCHANGED charged
    /\ ProcAt("reply")
    /\ UNCHANGED <<queueVars, entryVars, handler, wake, stopping, auxVars>>

Reply ==
    /\ proc.at \in {"reply", "fail"}
    /\ resultCh' = [resultCh EXCEPT ![proc.e] =
                       Append(@, IF proc.at = "reply" THEN "answered" ELSE "failed")]
    /\ ProcAt("clear")
    /\ UNCHANGED <<queueVars, bid, cancelled, ctx, handler, wake, stopping, charged, auxVars>>

Deactivate ==
    /\ proc.at = "clear"
    /\ active' = None
    /\ proc' = [at |-> "pop", e |-> None]
    /\ UNCHANGED <<entries, bids, entryVars, handler, wake, stopping, charged, auxVars>>

Processor ==
    \/ Wake \/ Quit \/ PopNext \/ Activate \/ Send \/ Run \/ Bill \/ Reply \/ Deactivate

-----------------------------------------------------------------------------
(* Calls from the API, and what the client does. *)

SetBid(c, b) ==
    LET affected == {r \in Pending : Owner[r] = c} IN
    /\ c \in Bidding
    /\ bids' = [bids EXCEPT ![c] = b]
    /\ bid' = [r \in Requests |-> IF r \in affected THEN b ELSE bid[r]]
    /\ entries' \in Sorted(entries, bid')
    /\ repriced' = repriced \cup {r \in affected : bid[r] # b}
    /\ UNCHANGED <<active, cancelled, ctx, resultCh, controlVars, charged, arrived>>

\* Waiting requests are answered; their contexts and those of R are cancelled.
Answer(rs, R) ==
    /\ cancelled' = [r \in Requests |-> cancelled[r] \/ r \in rs]
    /\ ctx' = Cancel(rs \cup R)
    /\ resultCh' = [r \in Requests |->
                       IF r \in rs THEN Append(resultCh[r], "withdrawn") ELSE resultCh[r]]

\* DELETE /containers/{id}/ollama/queue: the first that waits.
CancelEntry(c) ==
    /\ c \in Cancelling
    /\ \E r \in Pending :
        /\ Owner[r] = c
        /\ \A o \in Pending \ {r} : Owner[o] = c => Precedes(entries, r, o)
        /\ Answer({r}, {})
        /\ entries' \in Without(entries, {r})
    /\ UNCHANGED <<active, bids, bid, controlVars, charged, auxVars>>

ActiveOf(c) == {r \in {active} \ {None} : Owner[r] = c}

\* Mutant: the entries are answered but left for the processor to find.
DropAllButKeep(c) ==
    /\ Answer({r \in Pending : Owner[r] = c}, ActiveOf(c))
    /\ UNCHANGED entries

\* All that wait are answered, all are removed, the active one is cancelled.
DropAll(c) ==
    /\ Answer({r \in Pending : Owner[r] = c}, ActiveOf(c))
    /\ entries' \in Without(entries, {r \in Requests : Owner[r] = c})

\* A freeze, which keeps the bid.
CancelAllPending(c) ==
    /\ c \in Cancelling
    /\ DropAll(c)
    /\ UNCHANGED <<active, bids, bid, controlVars, charged, auxVars>>

RemoveContainer(c) ==
    /\ c \in Cancelling
    /\ DropAll(c)
    /\ bids' = [bids EXCEPT ![c] = 0]
    /\ UNCHANGED <<active, bid, controlVars, charged, auxVars>>

\* r.Context is done, and with it e.ctx, which is derived from it.
Disconnect(r) ==
    /\ r \in Leaving
    /\ handler[r] \in {"check", "enqueue", "signal", "wait"}
    /\ ctx' = [ctx EXCEPT ![r] = "gone"]
    /\ UNCHANGED <<queueVars, bid, cancelled, resultCh, controlVars, charged, auxVars>>

Stop ==
    /\ MayStop
    /\ stopping = "no"
    /\ stopping' = "closed"
    /\ UNCHANGED <<queueVars, entryVars, handler, proc, wake, charged, auxVars>>

\* The lock region of Stop.
Drain ==
    /\ stopping = "closed"
    /\ Answer(Pending, {active} \ {None})
    /\ entries' = <<>>
    /\ stopping' = "drained"
    /\ UNCHANGED <<active, bids, bid, handler, proc, wake, charged, auxVars>>

API ==
    \/ \E c \in Containers, b \in Bids : SetBid(c, b)
    \/ \E c \in Containers : CancelEntry(c) \/ CancelAllPending(c) \/ RemoveContainer(c)
    \/ Stop
    \/ Drain

Client == \E r \in Requests : Call(r) \/ Disconnect(r)

Next == (\E r \in Requests : Handler(r)) \/ Processor \/ API \/ Client

Spec == Init /\ [][Next]_vars

\* The goroutines are scheduled, a queue timeout fires, and every call to Ollama
\* ends within its RequestTimeout.
FairSpec ==
    /\ Spec
    /\ WF_vars(Processor)
    /\ \A r \in Requests : WF_vars(Handler(r))

-----------------------------------------------------------------------------
(* Properties *)

Returned == {"refused", "full", "answered", "failed", "timeout", "gone"}
HandlerLabels == {"new", "check", "enqueue", "signal", "wait", "expired", "left"} \cup Returned
ProcLabels == {"sleep", "pop", "taken", "send", "run", "bill", "reply", "fail", "clear", "quit"}
Results == {"answered", "failed", "withdrawn"}

QueueOK ==
    /\ entries \in Seq(Requests)
    /\ Len(entries) <= MaxQueueSize
    /\ active \in Requests \cup {None}
    /\ bids \in [Containers -> Nat]

EntriesOK ==
    /\ bid \in [Requests -> Nat]
    /\ cancelled \in [Requests -> BOOLEAN]
    /\ ctx \in [Requests -> {"live", "cancelled", "gone"}]
    /\ resultCh \in [Requests -> Seq(Results)]

ControlOK ==
    /\ handler \in [Requests -> HandlerLabels]
    /\ proc \in [at : ProcLabels, e : Requests \cup {None}]
    /\ proc.e = None <=> proc.at \in {"sleep", "pop", "quit"}
    /\ wake \in BOOLEAN
    /\ stopping \in {"no", "closed", "drained"}

\* Types of the variables, the capacity of the queue, and that the processor has
\* an entry exactly while it serves one.
TypeOK ==
    /\ QueueOK
    /\ EntriesOK
    /\ ControlOK
    /\ charged \subseteq Requests
    /\ arrived \in Seq(Requests)
    /\ repriced \subseteq Requests

\* resultCh has room for one result, and only one is ever sent, whichever of the
\* processor, a cancellation and the shutdown gets to the entry first: a second
\* send could block its sender, which may hold the queue's mutex.
AnsweredOnce == \A r \in Requests : Len(resultCh[r]) <= 1

\* A request that was told it is withdrawn is neither served nor charged any more.
WithdrawnIsNotServed ==
    \A r \in Requests :
        "withdrawn" \in Range(resultCh[r]) => proc.e # r /\ r \notin Range(entries)

\* Ollama's answer to r has been read, whatever its status: from then on processEntry
\* charges for it, also when the client has given up in the meantime.
Answered(r) ==
    \/ proc.e = r /\ proc.at \in {"bill", "reply"}
    \/ "answered" \in Range(resultCh[r])

\* Nobody wants r any more, or it cannot be had: it was not let in, its context is done
\* (a timeout, a client that left, a freeze, a removal, the shutdown), the call to Ollama
\* ended without an answer, or it was told so.
GivenUp(r) ==
    \/ handler[r] \in {"refused", "full"}
    \/ ctx[r] # "live"
    \/ proc = [at |-> "fail", e |-> r]
    \/ Range(resultCh[r]) \cap {"failed", "withdrawn"} # {}

\* A request that is given up before Ollama has answered it is never charged, wherever
\* the processor was with it at that moment, and neither is one whose call to Ollama
\* fails.  Once Ollama has answered it is charged, also for an error status and when
\* the client has been told of a timeout since.
UnansweredIsFree ==
    \A r \in Requests : [](GivenUp(r) /\ ~Answered(r) => [](r \notin charged))

\* A call that has returned leaves no entry behind to take up room in the queue.
ReturnedLeavesQueue ==
    \A r \in Requests : handler[r] \in Returned => r \notin Range(entries)

\* The queue seen from outside: Serving from the moment an entry is taken.
Abstract == INSTANCE BidQueue WITH
    waiting <- Pending, serving <- proc.e, offer <- bid,
    Bids <- Bids \cup {0, DefaultBid}, Capacity <- MaxQueueSize

\* The queue implements BidQueue: one request is served at a time, once, by bid and
\* for equal bids in order of arrival, and no more than MaxQueueSize wait.
ImplementsBidQueue == Abstract!Spec

\* Every request is answered or given up, whatever is cancelled and re-bid, unless
\* the queue shuts down: no wake-up is lost.
EveryRequestReturns ==
    \A r \in Requests :
        handler[r] # "new" ~> handler[r] \in Returned \/ stopping # "no"

InQueue(r) == r \in Pending \/ active = r

\* README, "Queue semantics": "Each container can have at most one pending/active
\* request at a time."
OnePerContainer ==
    \A r, o \in Requests : InQueue(r) /\ InQueue(o) /\ Owner[r] = Owner[o] => r = o

Started(r) == proc.e = r /\ proc.at \in {"run", "bill", "reply", "clear"}

\* README, "Queue semantics": "If the request doesn't start within that time, it
\* returns HTTP 408."  A request that has started is not ended by its timeout.
TimeoutOnlyWaits ==
    [][\A r \in Requests : handler'[r] = "expired" => handler[r] = "expired" \/ ~Started(r)]_vars

-----------------------------------------------------------------------------
(* The inductive invariant: who may still answer an entry. *)

Distinct(s) == \A i, j \in DOMAIN s : i # j => s[i] # s[j]

EntryOK(r) ==
    /\ r \in Range(entries) =>
          /\ handler[r] \in {"signal", "wait", "expired", "left"}
          /\ resultCh[r] = <<>>
          /\ proc.e # r
    /\ handler[r] \in {"new", "check", "enqueue", "refused", "full"} =>
          resultCh[r] = <<>> /\ proc.e # r
    /\ proc.e = r =>
          resultCh[r] \in IF proc.at = "clear" THEN {<<"answered">>, <<"failed">>} ELSE {<<>>}
    /\ r \in charged => resultCh[r] = <<"answered">> \/ (proc.e = r /\ proc.at = "reply")
    /\ handler[r] = "failed" => resultCh[r] \in {<<"failed">>, <<"withdrawn">>}
    /\ Len(resultCh[r]) <= 1

\* An entry that waits is in the queue once and unanswered, one that was taken is
\* unanswered until the processor answers it, and nobody else can: the safety
\* properties above follow from this.
QueueInv ==
    /\ TypeOK
    /\ Distinct(entries)
    /\ \A r \in Requests : EntryOK(r)
=============================================================================
