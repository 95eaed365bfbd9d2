------------------------------ MODULE EventBus ------------------------------
(***************************************************************************)
(* The event bus and the clients that listen to it: any goroutine of the    *)
(* daemon publishes, under the read lock of the bus; each client has a      *)
(* handler that subscribes, copies its channel to the connection and        *)
(* unsubscribes when the client is gone or the server stops.                *)
(***************************************************************************)
EXTENDS Naturals, Sequences

CONSTANTS
    Clients,      \* connections that may be open at once
    Publishers,   \* goroutines that publish
    Kinds,        \* a kind of event: its type and its container
    Filters,      \* query parameters of a client: sets of types and of containers
    Asks,         \* those that each client may come with
    Emits,        \* the kinds that each publisher publishes
    Stallers,     \* clients that may stop reading
    BufferSize,   \* of a channel: 64 in the code
    MaxEvents,    \* a bound on the events of each publisher
    None

ASSUME BusAssumption ==
    /\ BufferSize \in Nat \ {0} /\ MaxEvents \in [Publishers -> Nat]
    /\ Asks \in [Clients -> SUBSET Filters] /\ Emits \in [Publishers -> SUBSET Kinds]
    /\ None \notin [by : Publishers, n : Nat \ {0}, kind : Kinds]

VARIABLES
    subscribers,  \* of the bus
    filter,       \* of each subscriber
    ch,           \* its channel
    pub,          \* what each publisher does: its event, the subscribers still to visit
    sent,         \* how many events it has published
    handler,      \* where the handler of each client is
    closeCh,      \* clients whose read goroutine has ended
    client,       \* what the client does
    done          \* the server stops

busVars == <<subscribers, filter, ch>>
publishers == <<pub, sent>>
clientVars == <<closeCh, client>>
vars == <<busVars, publishers, handler, clientVars, done>>

Events == [by : Publishers, n : Nat \ {0}, kind : Kinds]

NoFilter == [containers |-> {}, types |-> {}]

Matches(f, kind) ==
    /\ f.containers = {} \/ kind.container \in f.containers
    /\ f.types = {} \/ kind.type \in f.types

NotPublishing == [at |-> "idle", event |-> None, todo |-> {}]

Init ==
    /\ subscribers = {} /\ filter = [s \in Clients |-> NoFilter] /\ ch = [s \in Clients |-> <<>>]
    /\ pub = [p \in Publishers |-> NotPublishing] /\ sent = [p \in Publishers |-> 0]
    /\ handler = [s \in Clients |-> "off"]
    /\ closeCh = {} /\ client = [s \in Clients |-> "gone"]
    /\ done = FALSE

Goto(s, label) == handler' = [handler EXCEPT ![s] = label]

\* The write lock of the bus is free: no publisher holds the read lock.
NoReader == \A p \in Publishers : pub[p].at # "send"

-----------------------------------------------------------------------------
(* Publish. *)

\* The read lock is there for any number of publishers at once.
Publish(p, kind) ==
    /\ kind \in Emits[p]
    /\ pub[p].at = "idle" /\ sent[p] < MaxEvents[p]
    /\ pub' = [pub EXCEPT ![p] = [at |-> "send", todo |-> subscribers,
                                  event |-> [by |-> p, n |-> sent[p] + 1, kind |-> kind]]]
    /\ sent' = [sent EXCEPT ![p] = @ + 1]
    /\ UNCHANGED <<busVars, handler, clientVars, done>>

\* Mutant: a plain send, which waits for room.
SendWaiting(p, s) ==
    LET e == pub[p].event IN
    /\ pub[p].at = "send" /\ s \in pub[p].todo
    /\ Matches(filter[s], e.kind) => Len(ch[s]) < BufferSize
    /\ ch' = [ch EXCEPT ![s] = IF Matches(filter[s], e.kind) THEN Append(@, e) ELSE @]
    /\ pub' = [pub EXCEPT ![p].todo = @ \ {s}]
    /\ UNCHANGED <<subscribers, filter, sent, handler, clientVars, done>>

\* Mutant: the channel grows.
SendUnbounded(p, s) ==
    LET e == pub[p].event IN
    /\ pub[p].at = "send" /\ s \in pub[p].todo
    /\ ch' = [ch EXCEPT ![s] = IF Matches(filter[s], e.kind) THEN Append(@, e) ELSE @]
    /\ pub' = [pub EXCEPT ![p].todo = @ \ {s}]
    /\ UNCHANGED <<subscribers, filter, sent, handler, clientVars, done>>

\* The send does not wait: an event is dropped when the channel is full.
Send(p, s) ==
    LET e == pub[p].event IN
    /\ pub[p].at = "send" /\ s \in pub[p].todo
    /\ ch' = [ch EXCEPT ![s] = IF Matches(filter[s], e.kind) /\ Len(@) < BufferSize
                               THEN Append(@, e) ELSE @]
    /\ pub' = [pub EXCEPT ![p].todo = @ \ {s}]
    /\ UNCHANGED <<subscribers, filter, sent, handler, clientVars, done>>

RUnlock(p) ==
    /\ pub[p].at = "send" /\ pub[p].todo = {}
    /\ pub' = [pub EXCEPT ![p] = NotPublishing]
    /\ UNCHANGED <<busVars, sent, handler, clientVars, done>>

-----------------------------------------------------------------------------
(* handleEvents of a client. *)

Connect(s) ==
    /\ handler[s] = "off"
    /\ Goto(s, "subscribe")
    /\ client' = [client EXCEPT ![s] = "reading"] /\ closeCh' = closeCh \ {s}
    /\ UNCHANGED <<busVars, publishers, done>>

Subscribe(s, f) ==
    /\ handler[s] = "subscribe" /\ f \in Asks[s] /\ NoReader
    /\ subscribers' = subscribers \cup {s}
    /\ filter' = [filter EXCEPT ![s] = f] /\ ch' = [ch EXCEPT ![s] = <<>>]
    /\ Goto(s, "select")
    /\ UNCHANGED <<publishers, clientVars, done>>

Receive(s) ==
    /\ handler[s] = "select" /\ ch[s] # <<>>
    /\ ch' = [ch EXCEPT ![s] = Tail(@)]
    /\ Goto(s, "write")
    /\ UNCHANGED <<subscribers, filter, publishers, clientVars, done>>

\* The handler returns: the connection is closed, which ends its read goroutine too,
\* and then the subscription.
Return(s) ==
    /\ Goto(s, "unsubscribe")
    /\ client' = [client EXCEPT ![s] = "gone"] /\ closeCh' = closeCh \cup {s}

\* There is no deadline: a write waits for a client that does not read.
Write(s) ==
    /\ handler[s] = "write" /\ client[s] = "reading"
    /\ Goto(s, "select")
    /\ UNCHANGED <<busVars, publishers, clientVars, done>>

WriteFails(s) ==
    /\ handler[s] = "write" /\ client[s] = "gone"
    /\ Return(s)
    /\ UNCHANGED <<busVars, publishers, done>>

\* Mutant: closeCh is looked at with an event in hand only.
SeeCloseAtEvent(s) ==
    /\ handler[s] = "write" /\ s \in closeCh
    /\ Return(s)
    /\ UNCHANGED <<busVars, publishers, done>>

SeeClose(s) ==
    /\ handler[s] = "select" /\ s \in closeCh
    /\ Return(s)
    /\ UNCHANGED <<busVars, publishers, done>>

\* The client is told first, if it reads.
SeeDone(s) ==
    /\ handler[s] = "select" /\ done
    /\ Goto(s, "goodbye")
    /\ UNCHANGED <<busVars, publishers, clientVars, done>>

SayGoodbye(s) ==
    /\ handler[s] = "goodbye" /\ client[s] # "stalled"
    /\ Return(s)
    /\ UNCHANGED <<busVars, publishers, done>>

\* Mutant: the lock is not taken.
UnsubscribeUnlocked(s) ==
    /\ handler[s] = "unsubscribe"
    /\ subscribers' = subscribers \ {s}
    /\ filter' = [filter EXCEPT ![s] = NoFilter] /\ ch' = [ch EXCEPT ![s] = <<>>]
    /\ Goto(s, "off")
    /\ UNCHANGED <<publishers, clientVars, done>>

\* The channel is closed, and nobody reads it any more; a send to it would panic.
Unsubscribe(s) ==
    /\ handler[s] = "unsubscribe" /\ NoReader
    /\ subscribers' = subscribers \ {s}
    /\ filter' = [filter EXCEPT ![s] = NoFilter] /\ ch' = [ch EXCEPT ![s] = <<>>]
    /\ Goto(s, "off")
    /\ UNCHANGED <<publishers, clientVars, done>>

\* The goroutine that reads from the client ends with an error.
ReadEnds(s) ==
    /\ client[s] = "gone" /\ handler[s] # "off" /\ s \notin closeCh
    /\ closeCh' = closeCh \cup {s}
    /\ UNCHANGED <<busVars, publishers, handler, client, done>>

-----------------------------------------------------------------------------
\* The client reads, does not read for a while or for ever, or leaves.
ClientTurns(s, how) ==
    /\ client[s] \in {"reading", "stalled"} /\ how # client[s]
    /\ how = "stalled" => s \in Stallers
    /\ client' = [client EXCEPT ![s] = how]
    /\ UNCHANGED <<busVars, publishers, handler, closeCh, done>>

\* Stop closes the done channel.
Stop ==
    /\ ~done /\ done' = TRUE
    /\ UNCHANGED <<busVars, publishers, handler, clientVars>>

Handle(s) ==
    \/ Receive(s) \/ Write(s) \/ WriteFails(s) \/ SeeClose(s) \/ SeeDone(s)
    \/ SayGoodbye(s)

\* The steps that take the write lock.
HandleLocked(s) == Unsubscribe(s) \/ \E f \in Filters : Subscribe(s, f)

Visit(p) == RUnlock(p) \/ \E s \in Clients : Send(p, s)

Next ==
    \/ \E p \in Publishers : Visit(p) \/ \E kind \in Kinds : Publish(p, kind)
    \/ \E s \in Clients : \/ Connect(s) \/ Handle(s) \/ HandleLocked(s) \/ ReadEnds(s)
                          \/ \E how \in {"reading", "stalled", "gone"} : ClientTurns(s, how)
    \/ Stop

\* Goroutines run.  A writer that waits keeps later readers out of the lock, so it gets
\* it though publishers come and go; and select takes one of the ready cases at random,
\* so it does not pass over the end of the server for ever.
Fairness ==
    /\ \A p \in Publishers : WF_vars(Visit(p))
    /\ \A s \in Clients : /\ WF_vars(Handle(s)) /\ WF_vars(ReadEnds(s))
                          /\ SF_vars(SeeDone(s)) /\ SF_vars(HandleLocked(s))

Spec == Init /\ [][Next]_vars
FairSpec == Spec /\ Fairness

-----------------------------------------------------------------------------
(* Properties. *)

TypeOK ==
    /\ subscribers \subseteq Clients /\ filter \in [Clients -> Filters \cup {NoFilter}] /\ ch \in [Clients -> Seq(Events)]
    /\ pub \in [Publishers -> [at : {"idle", "send"}, event : Events \cup {None},
                               todo : SUBSET Clients]]
    /\ \A p \in Publishers : pub[p].at = "send" => pub[p].event \in Events
    /\ sent \in [Publishers -> Nat]
    /\ handler \in [Clients -> {"off", "subscribe", "select", "write", "goodbye", "unsubscribe"}]
    /\ closeCh \subseteq Clients /\ client \in [Clients -> {"reading", "stalled", "gone"}]
    /\ done \in BOOLEAN
    /\ \A s \in Clients : Len(ch[s]) <= BufferSize

\* What a publisher still owes a subscriber.
Owed(s, p) ==
    IF pub[p].at = "send" /\ s \in pub[p].todo /\ Matches(filter[s], pub[p].event.kind)
    THEN pub[p].event ELSE None

Streams == INSTANCE EventStreams WITH
    Streams <- Clients, Capacity <- BufferSize,
    open <- subscribers, wants <- filter, line <- ch, last <- sent,
    owed <- [s \in Clients |-> [p \in Publishers |-> Owed(s, p)]]

\* Publish and Unsubscribe (events.go): subscribers get every event they want that is
\* published between their subscription and its end, each publisher's in order, but
\* those for which there was no room; nothing is sent to a channel that is closed.
ImplementsStreams == Streams!Spec

\* "Non-blocking": whatever subscribers do, a publisher is done with its event in the
\* end.  The enforcement of limits publishes too, and must not wait for a client.
PublishersReturn == \A p \in Publishers : pub[p].at = "send" ~> pub[p].at = "idle"

\* A handler unsubscribes and ends when its client is gone and when the server stops,
\* except for a client that is there and does not read.
HandlersLeave ==
    \A s \in Clients : client[s] = "gone" \/ done ~> handler[s] = "off" \/ client[s] = "stalled"
=============================================================================
