---------------------------- MODULE EventStreams ----------------------------
(***************************************************************************)
(* What the event bus promises its subscribers (the comments of Subscribe   *)
(* and Publish in events.go): every event that is published while a stream  *)
(* is open, and that the stream wants, is put in its line, in the order of  *)
(* the publisher, unless the line is full; and nothing else is.             *)
(***************************************************************************)
EXTENDS Naturals, Sequences

CONSTANTS
    Streams,
    Publishers,
    Kinds,        \* a kind of event: its type and its container
    Filters,      \* what a stream may want: sets of types and of containers
    Capacity,     \* of a line
    None

VARIABLES
    open,         \* the streams that are open
    wants,        \* the filter of each
    line,         \* what each stream is still to take
    owed,         \* of each stream and publisher, the event that was not offered yet
    last          \* how many events each publisher has published

vars == <<open, wants, line, owed, last>>

Events == [by : Publishers, n : Nat \ {0}, kind : Kinds]

NoFilter == [containers |-> {}, types |-> {}]

\* An empty list wants everything.
Matches(filter, kind) ==
    /\ filter.containers = {} \/ kind.container \in filter.containers
    /\ filter.types = {} \/ kind.type \in filter.types

Init ==
    /\ open = {} /\ wants = [s \in Streams |-> NoFilter] /\ line = [s \in Streams |-> <<>>]
    /\ owed = [s \in Streams |-> [p \in Publishers |-> None]]
    /\ last = [p \in Publishers |-> 0]

Open(s, filter) ==
    /\ s \notin open
    /\ open' = open \cup {s} /\ wants' = [wants EXCEPT ![s] = filter]
    /\ line' = [line EXCEPT ![s] = <<>>]
    /\ UNCHANGED <<owed, last>>

\* Every stream that is open is owed the event.
Publish(p, kind) ==
    /\ \A s \in Streams : owed[s][p] = None
    /\ last' = [last EXCEPT ![p] = @ + 1]
    /\ owed' = [s \in Streams |->
                  IF s \in open /\ Matches(wants[s], kind)
                  THEN [owed[s] EXCEPT ![p] = [by |-> p, n |-> last[p] + 1, kind |-> kind]]
                  ELSE owed[s]]
    /\ UNCHANGED <<open, wants, line>>

Offer(s, p) ==
    /\ s \in open /\ owed[s][p] # None
    /\ line' = [line EXCEPT ![s] = IF Len(@) < Capacity THEN Append(@, owed[s][p]) ELSE @]
    /\ owed' = [owed EXCEPT ![s] = [@ EXCEPT ![p] = None]]
    /\ UNCHANGED <<open, wants, last>>

Take(s) ==
    /\ s \in open /\ line[s] # <<>>
    /\ line' = [line EXCEPT ![s] = Tail(@)]
    /\ UNCHANGED <<open, wants, owed, last>>

\* A stream is not closed while it is owed an event.
Close(s) ==
    /\ s \in open /\ \A p \in Publishers : owed[s][p] = None
    /\ open' = open \ {s} /\ wants' = [wants EXCEPT ![s] = NoFilter]
    /\ line' = [line EXCEPT ![s] = <<>>]
    /\ UNCHANGED <<owed, last>>

Next ==
    \/ \E s \in Streams : Take(s) \/ Close(s) \/ \E filter \in Filters : Open(s, filter)
    \/ \E p \in Publishers, kind \in Kinds : Publish(p, kind)
    \/ \E s \in Streams, p \in Publishers : Offer(s, p)

Spec == Init /\ [][Next]_vars

-----------------------------------------------------------------------------
TypeOK ==
    /\ open \subseteq Streams /\ wants \in [Streams -> Filters \cup {NoFilter}] /\ line \in [Streams -> Seq(Events)]
    /\ owed \in [Streams -> [Publishers -> Events \cup {None}]]
    /\ last \in [Publishers -> Nat]
=============================================================================
