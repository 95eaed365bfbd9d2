--------------------------- MODULE EventBusProofs ---------------------------
(***************************************************************************)
(* The event bus implements EventStreams, for any number of clients and     *)
(* publishers: a visit of a publisher to a subscriber is the offer of what  *)
(* the stream is owed.                                                      *)
(***************************************************************************)
EXTENDS EventBus, SequenceTheorems, TLAPS

LEMMA BufferHasRoom == BufferSize \in Nat /\ 0 < BufferSize
<1>. QED  BY BusAssumption DEF BusAssumption

\* Nothing that is published is None.
LEMMA NoneIsNoEvent == None \notin Events
<1>. QED  BY BusAssumption DEF BusAssumption, Events

-----------------------------------------------------------------------------
(* Types. *)

LEMMA InitTyped == Init => TypeOK
<1>. SUFFICES ASSUME Init PROVE TypeOK
    OBVIOUS
<1>1. \A s \in Clients : Len(ch[s]) <= BufferSize
  <2>. SUFFICES ASSUME NEW s \in Clients PROVE Len(ch[s]) <= BufferSize
      OBVIOUS
  <2>1. ch[s] = <<>>
      BY DEF Init
  <2>2. Len(<<>>) = 0
      BY EmptySeq
  <2>3. Len(ch[s]) = 0
      BY <2>1, <2>2
  <2>. QED  BY <2>3, BufferHasRoom
<1>2. ch \in [Clients -> Seq(Events)]
    BY DEF Init
<1>3. pub \in [Publishers -> [at : {"idle", "send"}, event : Events \cup {None}, todo : SUBSET Clients]]
    BY DEF Init, NotPublishing
<1>4. \A p \in Publishers : pub[p].at # "send"
    BY DEF Init, NotPublishing
<1>5. /\ subscribers \subseteq Clients /\ filter \in [Clients -> Filters \cup {NoFilter}]
      /\ sent \in [Publishers -> Nat] /\ closeCh \subseteq Clients /\ done \in BOOLEAN
    BY DEF Init
<1>6. /\ handler \in [Clients -> {"off", "subscribe", "select", "write", "goodbye", "unsubscribe"}]
      /\ client \in [Clients -> {"reading", "stalled", "gone"}]
    BY DEF Init
<1>. QED  BY <1>1, <1>2, <1>3, <1>4, <1>5, <1>6 DEF TypeOK

LEMMA PublishTyped ==
    ASSUME TypeOK, NEW p \in Publishers, NEW kind \in Kinds, Publish(p, kind)
    PROVE  TypeOK'
<1>. DEFINE e == [by |-> p, n |-> sent[p] + 1, kind |-> kind]
<1>1. sent[p] \in Nat
    BY DEF TypeOK
<1>2. e \in Events
    BY <1>1 DEF Events
<1>. HIDE DEF e
<1>3. [at |-> "send", todo |-> subscribers, event |-> e]
        \in [at : {"idle", "send"}, event : Events \cup {None}, todo : SUBSET Clients]
    BY <1>2 DEF TypeOK
<1>4. pub' = [pub EXCEPT ![p] = [at |-> "send", todo |-> subscribers, event |-> e]]
    BY DEF Publish, e
<1>5. pub' \in [Publishers -> [at : {"idle", "send"}, event : Events \cup {None}, todo : SUBSET Clients]]
    BY <1>3, <1>4 DEF TypeOK
<1>6. \A q \in Publishers : pub'[q].at = "send" => pub'[q].event \in Events
    BY <1>2, <1>4 DEF TypeOK
<1>7. sent' \in [Publishers -> Nat]
    BY <1>1 DEF Publish, TypeOK
<1>. QED  BY <1>5, <1>6, <1>7 DEF Publish, TypeOK, busVars, clientVars

\* What Send makes of a channel.
LEMMA SendTyped ==
    ASSUME TypeOK, NEW p \in Publishers, NEW s \in Clients, Send(p, s)
    PROVE  TypeOK'
<1>. DEFINE e == pub[p].event
<1>1. e \in Events /\ ch[s] \in Seq(Events) /\ Len(ch[s]) \in Nat /\ BufferSize \in Nat
    BY BufferHasRoom, LenProperties DEF TypeOK, Send
<1>2. Append(ch[s], e) \in Seq(Events) /\ Len(Append(ch[s], e)) = Len(ch[s]) + 1
    BY <1>1, AppendProperties
<1>3. \/ ch' = [ch EXCEPT ![s] = Append(@, e)] /\ Len(ch[s]) < BufferSize
      \/ ch' = ch
    BY DEF Send, TypeOK
<1>. HIDE DEF e
<1>4. ch' \in [Clients -> Seq(Events)]
    BY <1>2, <1>3 DEF TypeOK
<1>5. \A t \in Clients : Len(ch'[t]) <= BufferSize
  <2>. SUFFICES ASSUME NEW t \in Clients PROVE Len(ch'[t]) <= BufferSize
      OBVIOUS
  <2>0. Len(ch[t]) <= BufferSize /\ ch \in [Clients -> Seq(Events)]
      BY DEF TypeOK
  <2>1. CASE ch' = ch
      BY <2>0, <2>1
  <2>2. CASE ch' = [ch EXCEPT ![s] = Append(@, e)] /\ Len(ch[s]) < BufferSize
    <3>1. ch'[t] = IF t = s THEN Append(ch[s], e) ELSE ch[t]
        BY <2>0, <2>2
    <3>. QED  BY <3>1, <2>0, <2>2, <1>1, <1>2
  <2>. QED  BY <1>3, <2>1, <2>2
<1>6. pub' \in [Publishers -> [at : {"idle", "send"}, event : Events \cup {None}, todo : SUBSET Clients]]
  <2>1. pub[p] \in [at : {"idle", "send"}, event : Events \cup {None}, todo : SUBSET Clients]
      BY DEF TypeOK
  <2>2. [pub[p] EXCEPT !.todo = @ \ {s}]
          \in [at : {"idle", "send"}, event : Events \cup {None}, todo : SUBSET Clients]
      BY <2>1
  <2>3. pub' = [pub EXCEPT ![p] = [pub[p] EXCEPT !.todo = @ \ {s}]]
      BY DEF Send
  <2>. HIDE DEF Send
  <2>. QED  BY <2>2, <2>3 DEF TypeOK
<1>7. \A q \in Publishers : pub'[q].at = "send" => pub'[q].event \in Events
    BY DEF Send, TypeOK
<1>. QED  BY <1>4, <1>5, <1>6, <1>7 DEF Send, TypeOK, clientVars

LEMMA HandlerTyped ==
    ASSUME TypeOK, NEW s \in Clients,
           Connect(s) \/ Handle(s) \/ HandleLocked(s) \/ ReadEnds(s)
    PROVE  TypeOK'
<1>1. CASE Connect(s)
    BY <1>1 DEF Connect, Goto, TypeOK, busVars, publishers
<1>2. ASSUME NEW f \in Filters, Subscribe(s, f) PROVE TypeOK'
  <2>1. ch' \in [Clients -> Seq(Events)] /\ \A t \in Clients : Len(ch'[t]) <= BufferSize
      BY <1>2, BufferHasRoom DEF Subscribe, TypeOK
  <2>. QED  BY <1>2, <2>1 DEF Subscribe, Goto, TypeOK, publishers, clientVars
<1>3. CASE Receive(s)
  <2>1. Tail(ch[s]) \in Seq(Events) /\ Len(Tail(ch[s])) = Len(ch[s]) - 1 /\ Len(ch[s]) \in Nat
      BY <1>3, HeadTailProperties, LenProperties DEF Receive, TypeOK
  <2>2. ch' \in [Clients -> Seq(Events)] /\ \A t \in Clients : Len(ch'[t]) <= BufferSize
      BY <1>3, <2>1, BufferHasRoom DEF Receive, TypeOK
  <2>. QED  BY <1>3, <2>2 DEF Receive, Goto, TypeOK, publishers, clientVars
<1>4. CASE Write(s)
    BY <1>4 DEF Write, Goto, TypeOK, busVars, publishers, clientVars
<1>5. CASE WriteFails(s) \/ SeeClose(s) \/ SayGoodbye(s)
  <2>1. Return(s) /\ UNCHANGED <<busVars, publishers, done>>
      BY <1>5 DEF WriteFails, SeeClose, SayGoodbye
  <2>. QED  BY <2>1 DEF Return, Goto, TypeOK, busVars, publishers
<1>6. CASE SeeDone(s)
    BY <1>6 DEF SeeDone, Goto, TypeOK, busVars, publishers, clientVars
<1>7. CASE Unsubscribe(s)
  <2>1. ch' \in [Clients -> Seq(Events)] /\ \A t \in Clients : Len(ch'[t]) <= BufferSize
      BY <1>7, BufferHasRoom DEF Unsubscribe, TypeOK
  <2>. QED  BY <1>7, <2>1 DEF Unsubscribe, Goto, TypeOK, publishers, clientVars
<1>8. CASE ReadEnds(s)
    BY <1>8 DEF ReadEnds, TypeOK, busVars, publishers
<1>. QED  BY <1>1, <1>2, <1>3, <1>4, <1>5, <1>6, <1>7, <1>8 DEF Handle, HandleLocked

LEMMA NextTyped == TypeOK /\ [Next]_vars => TypeOK'
<1>. SUFFICES ASSUME TypeOK, [Next]_vars PROVE TypeOK'
    OBVIOUS
<1>1. ASSUME NEW p \in Publishers, RUnlock(p) PROVE TypeOK'
    BY <1>1 DEF RUnlock, NotPublishing, TypeOK, busVars, clientVars
<1>2. ASSUME NEW s \in Clients, NEW how \in {"reading", "stalled", "gone"}, ClientTurns(s, how)
      PROVE  TypeOK'
    BY <1>2 DEF ClientTurns, TypeOK, busVars, publishers
<1>3. CASE Stop
    BY <1>3 DEF Stop, TypeOK, busVars, publishers, clientVars
<1>4. CASE UNCHANGED vars
    BY <1>4 DEF TypeOK, vars, busVars, publishers, clientVars
<1>. QED  BY <1>1, <1>2, <1>3, <1>4, PublishTyped, SendTyped, HandlerTyped DEF Next, Visit

\* Every reachable state of the bus and of its clients is well typed; in particular no
\* channel holds more than its buffer does.
THEOREM BusTypeCorrect == Spec => []TypeOK
<1>. QED  BY InitTyped, NextTyped, PTL DEF Spec

-----------------------------------------------------------------------------
(* What the refinement rests on. *)

\* A client is subscribed from the end of Subscribe to that of Unsubscribe.
SubscribedOK ==
    \A s \in Clients :
        s \in subscribers <=> handler[s] \in {"select", "write", "goodbye", "unsubscribe"}

\* The read lock keeps those that are still to be visited subscribed.
VisitOK == \A p \in Publishers : pub[p].at = "send" => pub[p].todo \subseteq subscribers

BusInv == TypeOK /\ SubscribedOK /\ VisitOK

LEMMA InitInv == Init => BusInv
<1>. QED  BY InitTyped DEF Init, BusInv, SubscribedOK, VisitOK, NotPublishing

LEMMA VisitInv ==
    ASSUME BusInv, NEW p \in Publishers,
           Visit(p) \/ \E kind \in Kinds : Publish(p, kind)
    PROVE  SubscribedOK' /\ VisitOK'
<1>1. ASSUME NEW kind \in Kinds, Publish(p, kind) PROVE SubscribedOK' /\ VisitOK'
    BY <1>1 DEF Publish, BusInv, TypeOK, SubscribedOK, VisitOK, busVars
<1>2. ASSUME NEW s \in Clients, Send(p, s) PROVE SubscribedOK' /\ VisitOK'
  <2>1. UNCHANGED <<subscribers, handler>>
      BY <1>2 DEF Send
  <2>2. \A q \in Publishers : pub'[q].at = pub[q].at /\ pub'[q].todo \subseteq pub[q].todo
      BY <1>2 DEF Send, BusInv, TypeOK
  <2>. QED  BY <2>1, <2>2 DEF BusInv, SubscribedOK, VisitOK
<1>3. CASE RUnlock(p)
    BY <1>3 DEF RUnlock, NotPublishing, BusInv, TypeOK, SubscribedOK, VisitOK, busVars
<1>. QED  BY <1>1, <1>2, <1>3 DEF Visit

LEMMA HandlerInv ==
    ASSUME BusInv, NEW s \in Clients,
           Connect(s) \/ Handle(s) \/ HandleLocked(s) \/ ReadEnds(s)
    PROVE  SubscribedOK' /\ VisitOK'
<1>1. CASE Connect(s)
    BY <1>1 DEF Connect, Goto, BusInv, TypeOK, SubscribedOK, VisitOK, busVars, publishers
<1>2. ASSUME NEW f \in Filters, Subscribe(s, f) PROVE SubscribedOK' /\ VisitOK'
    BY <1>2 DEF Subscribe, Goto, BusInv, TypeOK, SubscribedOK, VisitOK, publishers
<1>3. CASE Handle(s) \/ ReadEnds(s)
  <2>1. UNCHANGED <<subscribers, publishers>>
      BY <1>3 DEF Handle, Receive, Write, WriteFails, SeeClose, SeeDone, SayGoodbye, ReadEnds, busVars
  <2>2. \/ handler' = handler
        \/ /\ handler[s] \in {"select", "write", "goodbye"}
           /\ \E label \in {"select", "write", "goodbye", "unsubscribe"} :
                  handler' = [handler EXCEPT ![s] = label]
      BY <1>3 DEF Handle, Receive, Write, WriteFails, SeeClose, SeeDone, SayGoodbye, ReadEnds, Return, Goto
  <2>3. SubscribedOK'
      BY <2>1, <2>2 DEF BusInv, TypeOK, SubscribedOK
  <2>. QED  BY <2>1, <2>3 DEF BusInv, VisitOK, publishers
<1>4. CASE Unsubscribe(s)
    BY <1>4 DEF Unsubscribe, NoReader, Goto, BusInv, TypeOK, SubscribedOK, VisitOK, publishers
<1>. QED  BY <1>1, <1>2, <1>3, <1>4 DEF HandleLocked

LEMMA NextInv == BusInv /\ [Next]_vars => BusInv'
<1>. SUFFICES ASSUME BusInv, [Next]_vars PROVE BusInv'
    OBVIOUS
<1>1. TypeOK'
    BY NextTyped DEF BusInv
<1>2. ASSUME UNCHANGED <<busVars, publishers, handler>> PROVE SubscribedOK' /\ VisitOK'
    BY <1>2 DEF BusInv, SubscribedOK, VisitOK, busVars, publishers
<1>3. ASSUME NEW s \in Clients, NEW how \in {"reading", "stalled", "gone"}, ClientTurns(s, how)
      PROVE  SubscribedOK' /\ VisitOK'
    BY <1>2, <1>3 DEF ClientTurns
<1>4. CASE Stop \/ UNCHANGED vars
    BY <1>1, <1>2, <1>4 DEF Stop, vars, BusInv
<1>. QED  BY <1>1, <1>3, <1>4, VisitInv, HandlerInv DEF Next, BusInv

-----------------------------------------------------------------------------
(* The refinement. *)

LEMMA InitRefines == Init => Streams!Init
<1>. SUFFICES ASSUME Init PROVE Streams!Init
    OBVIOUS
<1>1. \A s \in Clients, p \in Publishers : Owed(s, p) = None
    BY DEF Init, NotPublishing, Owed
<1>. QED  BY <1>1 DEF Init, NoFilter, Streams!Init, Streams!NoFilter

\* A step that leaves the bus and what is owed alone.
LEMMA StutterRefines ==
    ASSUME UNCHANGED <<busVars, sent>>,
           \A s \in Clients, p \in Publishers : Owed(s, p)' = Owed(s, p)
    PROVE  UNCHANGED Streams!vars
<1>. QED  BY DEF Streams!vars, busVars

LEMMA PublishRefines ==
    ASSUME BusInv, NEW p \in Publishers, NEW kind \in Kinds, Publish(p, kind)
    PROVE  Streams!Publish(p, kind)
<1>. DEFINE e == [by |-> p, n |-> sent[p] + 1, kind |-> kind]
            owed == [s \in Clients |-> [q \in Publishers |-> Owed(s, q)]]
<1>1. \A s \in Clients : owed[s][p] = None
    BY DEF Publish, Owed
<1>2. UNCHANGED busVars /\ sent' = [sent EXCEPT ![p] = @ + 1]
    BY DEF Publish
<1>3. /\ pub'[p].at = "send" /\ pub'[p].event = e /\ pub'[p].todo = subscribers
      /\ \A q \in Publishers \ {p} : pub'[q] = pub[q]
    BY DEF Publish, BusInv, TypeOK
<1>4. \A s \in Clients :
        /\ Owed(s, p)' = IF s \in subscribers /\ Matches(filter[s], kind) THEN e ELSE None
        /\ \A q \in Publishers \ {p} : Owed(s, q)' = Owed(s, q)
    BY <1>2, <1>3 DEF Owed, Matches, busVars
<1>. HIDE DEF e
<1>5. ASSUME NEW s \in Clients
      PROVE  owed'[s] = IF s \in subscribers /\ Matches(filter[s], kind)
                        THEN [owed[s] EXCEPT ![p] = e] ELSE owed[s]
    BY <1>1, <1>4
<1>6. owed' = [s \in Clients |-> IF s \in subscribers /\ Matches(filter[s], kind)
                                 THEN [owed[s] EXCEPT ![p] = e] ELSE owed[s]]
    BY <1>5
<1>7. \A s \in Clients : Matches(filter[s], kind) <=> Streams!Matches(filter[s], kind)
    BY DEF Matches, Streams!Matches
<1>8. owed' = [s \in Clients |-> IF s \in subscribers /\ Streams!Matches(filter[s], kind)
                                 THEN [owed[s] EXCEPT ![p] = e] ELSE owed[s]]
    BY <1>6, <1>7
<1>. QED  BY <1>1, <1>2, <1>8 DEF Streams!Publish, busVars, e

LEMMA SendRefines ==
    ASSUME BusInv, NEW p \in Publishers, NEW s \in Clients, Send(p, s)
    PROVE  Streams!Offer(s, p) \/ UNCHANGED Streams!vars
<1>. DEFINE e == pub[p].event
            owed == [t \in Clients |-> [q \in Publishers |-> Owed(t, q)]]
<1>1. /\ pub[p].at = "send" /\ s \in pub[p].todo /\ e \in Events /\ s \in subscribers
      /\ UNCHANGED <<subscribers, filter, sent>>
    BY DEF Send, BusInv, TypeOK, VisitOK
<1>2. /\ pub'[p].at = pub[p].at /\ pub'[p].event = e /\ pub'[p].todo = pub[p].todo \ {s}
      /\ \A q \in Publishers \ {p} : pub'[q] = pub[q]
    BY DEF Send, BusInv, TypeOK
<1>3. \A t \in Clients, q \in Publishers :
        Owed(t, q)' = IF t = s /\ q = p THEN None ELSE Owed(t, q)
    BY <1>1, <1>2 DEF Owed, Matches
<1>4. CASE Matches(filter[s], e.kind)
  <2>1. owed[s][p] = e /\ e # None
      BY <1>1, <1>4, NoneIsNoEvent DEF Owed
  <2>2. ch' = [ch EXCEPT ![s] = IF Len(@) < BufferSize THEN Append(@, e) ELSE @]
      BY <1>4 DEF Send
  <2>3. \A t \in Clients : owed'[t] = IF t = s THEN [owed[s] EXCEPT ![p] = None] ELSE owed[t]
      BY <1>3
  <2>4. owed' = [owed EXCEPT ![s] = [owed[s] EXCEPT ![p] = None]]
      BY <2>3
  <2>5. ch' = [ch EXCEPT ![s] = IF Len(@) < BufferSize THEN Append(@, owed[s][p]) ELSE @]
      BY <2>1, <2>2
  <2>. HIDE DEF e
  <2>6. owed[s][p] # None
      BY <2>1
  <2>. QED  BY <1>1, <2>4, <2>5, <2>6 DEF Streams!Offer
<1>5. CASE ~Matches(filter[s], e.kind)
  <2>1. Owed(s, p) = None
      BY <1>5 DEF Owed
  <2>2. ch' = ch
      BY <1>5 DEF Send, BusInv, TypeOK
  <2>3. \A t \in Clients, q \in Publishers : Owed(t, q)' = Owed(t, q)
      BY <1>3, <2>1
  <2>. QED  BY <1>1, <2>2, <2>3, StutterRefines DEF busVars
<1>. QED  BY <1>4, <1>5

\* The steps of a handler that use the bus.
LEMMA HandlerRefines ==
    ASSUME BusInv, NEW s \in Clients,
           Connect(s) \/ Handle(s) \/ HandleLocked(s) \/ ReadEnds(s)
    PROVE  \/ Streams!Take(s) \/ Streams!Close(s)
           \/ \E f \in Filters : Streams!Open(s, f)
           \/ UNCHANGED Streams!vars
<1>. DEFINE owed == [t \in Clients |-> [q \in Publishers |-> Owed(t, q)]]
<1>1. ASSUME NEW f \in Filters, Subscribe(s, f) PROVE Streams!Open(s, f)
  <2>1. s \notin subscribers
      BY <1>1 DEF Subscribe, BusInv, SubscribedOK
  <2>2. \A t \in Clients, q \in Publishers : Owed(t, q)' = Owed(t, q)
      BY <1>1 DEF Subscribe, NoReader, Owed, publishers
  <2>3. owed' = owed
      BY <2>2
  <2>. QED  BY <1>1, <2>1, <2>3 DEF Subscribe, publishers, Streams!Open
<1>2. CASE Unsubscribe(s)
  <2>1. s \in subscribers
      BY <1>2 DEF Unsubscribe, BusInv, SubscribedOK
  <2>2. \A t \in Clients, q \in Publishers : Owed(t, q)' = None /\ Owed(t, q) = None
      BY <1>2 DEF Unsubscribe, NoReader, Owed, publishers
  <2>3. owed' = owed /\ \A q \in Publishers : owed[s][q] = None
      BY <2>2
  <2>. QED  BY <1>2, <2>1, <2>3 DEF Unsubscribe, NoFilter, publishers, Streams!Close, Streams!NoFilter
<1>3. CASE Receive(s)
  <2>1. s \in subscribers
      BY <1>3 DEF Receive, BusInv, SubscribedOK
  <2>2. \A t \in Clients, q \in Publishers : Owed(t, q)' = Owed(t, q)
      BY <1>3 DEF Receive, Owed, publishers
  <2>3. owed' = owed
      BY <2>2
  <2>. QED  BY <1>3, <2>1, <2>3 DEF Receive, publishers, Streams!Take
<1>4. ASSUME UNCHANGED <<busVars, publishers>> PROVE UNCHANGED Streams!vars
  <2>1. \A t \in Clients, q \in Publishers : Owed(t, q)' = Owed(t, q)
      BY <1>4 DEF Owed, Matches, busVars, publishers
  <2>. QED  BY <1>4, <2>1, StutterRefines DEF publishers
<1>5. CASE Connect(s) \/ Write(s) \/ WriteFails(s) \/ SeeClose(s) \/ SeeDone(s) \/ SayGoodbye(s) \/ ReadEnds(s)
    BY <1>4, <1>5 DEF Connect, Write, WriteFails, SeeClose, SeeDone, SayGoodbye, ReadEnds
<1>. QED  BY <1>1, <1>2, <1>3, <1>5 DEF Handle, HandleLocked

LEMMA NextRefines == BusInv /\ [Next]_vars => [Streams!Next]_(Streams!vars)
<1>. SUFFICES ASSUME BusInv, [Next]_vars PROVE Streams!Next \/ UNCHANGED Streams!vars
    OBVIOUS
<1>1. ASSUME NEW p \in Publishers, RUnlock(p) PROVE UNCHANGED Streams!vars
  <2>1. \A s \in Clients, q \in Publishers : Owed(s, q)' = Owed(s, q)
      BY <1>1 DEF RUnlock, NotPublishing, Owed, Matches, BusInv, TypeOK, busVars
  <2>. QED  BY <1>1, <2>1, StutterRefines DEF RUnlock
<1>2. ASSUME UNCHANGED <<busVars, publishers>> PROVE UNCHANGED Streams!vars
  <2>1. \A s \in Clients, q \in Publishers : Owed(s, q)' = Owed(s, q)
      BY <1>2 DEF Owed, Matches, busVars, publishers
  <2>. QED  BY <1>2, <2>1, StutterRefines DEF publishers
<1>3. ASSUME NEW s \in Clients, NEW how \in {"reading", "stalled", "gone"}, ClientTurns(s, how)
      PROVE  UNCHANGED Streams!vars
    BY <1>2, <1>3 DEF ClientTurns
<1>4. CASE Stop \/ UNCHANGED vars
    BY <1>2, <1>4 DEF Stop, vars
<1>5. ASSUME NEW p \in Publishers, NEW kind \in Kinds, Publish(p, kind) PROVE Streams!Next
    BY <1>5, PublishRefines DEF Streams!Next
<1>6. ASSUME NEW p \in Publishers, NEW s \in Clients, Send(p, s)
      PROVE  Streams!Next \/ UNCHANGED Streams!vars
    BY <1>6, SendRefines DEF Streams!Next
<1>7. ASSUME NEW s \in Clients, Connect(s) \/ Handle(s) \/ HandleLocked(s) \/ ReadEnds(s)
      PROVE  Streams!Next \/ UNCHANGED Streams!vars
    BY <1>7, HandlerRefines DEF Streams!Next
<1>. QED  BY <1>1, <1>3, <1>4, <1>5, <1>6, <1>7 DEF Next, Visit

\* For any number of clients and publishers the bus keeps what its comments promise:
\* who subscribes is offered every event it wants, each publisher's in order, and loses
\* only those that found its channel full.
THEOREM BusImplementsStreams == Spec => ImplementsStreams
<1>1. Spec => []BusInv
    BY InitInv, NextInv, PTL DEF Spec
<1>. QED  BY <1>1, InitRefines, NextRefines, PTL DEF Spec, ImplementsStreams, Streams!Spec
=============================================================================
