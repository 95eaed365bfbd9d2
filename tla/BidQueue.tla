------------------------------ MODULE BidQueue ------------------------------
(***************************************************************************)
(* What the inference queue promises (README, "Queue semantics"): a request *)
(* waits with a bid, the one server takes the highest bid, equal bids in    *)
(* order of arrival, and a request that was taken or withdrawn is gone.     *)
(***************************************************************************)
EXTENDS Naturals, Sequences, FiniteSets

CONSTANTS
    Requests,     \* all requests ever made
    Owner,        \* the container of each request
    Bids,         \* the bids there may be
    Capacity,     \* how many may wait
    None          \* no request

VARIABLES
    waiting,      \* the requests that wait
    serving,      \* the request the server works on, or None
    offer,        \* the bid of each request
    arrived,      \* the requests in order of arrival
    repriced      \* those whose bid was changed while they waited

vars == <<waiting, serving, offer, arrived, repriced>>

Known == {arrived[i] : i \in DOMAIN arrived}

CameBefore(r, o) == \E i, j \in DOMAIN arrived : i < j /\ arrived[i] = r /\ arrived[j] = o

\* r is to be served before o.
Outranks(r, o) ==
    \/ offer[r] > offer[o]
    \/ /\ offer[r] = offer[o]
       /\ \/ {r, o} \cap repriced # {}
          \/ CameBefore(r, o)

Init ==
    /\ waiting = {}
    /\ serving = None
    /\ offer \in [Requests -> Bids]
    /\ arrived = <<>>
    /\ repriced = {}

Submit(r, bid) ==
    /\ r \notin Known
    /\ Cardinality(waiting) < Capacity
    /\ waiting' = waiting \cup {r}
    /\ offer' = [offer EXCEPT ![r] = bid]
    /\ arrived' = Append(arrived, r)
    /\ UNCHANGED <<serving, repriced>>

Reprice(container, bid) ==
    LET affected == {r \in waiting : Owner[r] = container} IN
    /\ offer' = [r \in Requests |-> IF r \in affected THEN bid ELSE offer[r]]
    /\ repriced' = repriced \cup {r \in affected : offer[r] # bid}
    /\ UNCHANGED <<waiting, serving, arrived>>

Take(r) ==
    /\ serving = None
    /\ r \in waiting
    /\ \A o \in waiting \ {r} : Outranks(r, o)
    /\ serving' = r
    /\ waiting' = waiting \ {r}
    /\ UNCHANGED <<offer, arrived, repriced>>

Finish ==
    /\ serving # None
    /\ serving' = None
    /\ UNCHANGED <<waiting, offer, arrived, repriced>>

\* Cancelled, timed out, disconnected, or the queue shuts down.
Withdraw(rs) ==
    /\ waiting' = waiting \ rs
    /\ UNCHANGED <<serving, offer, arrived, repriced>>

Next ==
    \/ \E r \in Requests, bid \in Bids : Submit(r, bid)
    \/ \E r \in Requests, bid \in Bids : Reprice(Owner[r], bid)
    \/ \E r \in Requests : Take(r)
    \/ Finish
    \/ \E rs \in SUBSET waiting : Withdraw(rs)

Spec == Init /\ [][Next]_vars
=============================================================================
