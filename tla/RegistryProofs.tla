--------------------------- MODULE RegistryProofs ---------------------------
(***************************************************************************)
(* Proofs about Registry, for any containers, segments, listeners and       *)
(* handlers, and any worlds: types; segments and their data; the map from   *)
(* addresses; and, from one invariant over all requests in service, that    *)
(* the copies which the manager and the proxy keep agree with the store.    *)
(***************************************************************************)
EXTENDS Registry, TLAPS

Reqs == [at : Labels, op : Operations, c : Containers \cup {None},
         s : Scopes \cup {None}, todo : SUBSET (Containers \cup Listeners)]

LEMMA NoneElse ==
    /\ None \notin Containers /\ None \notin Segments /\ Host \notin Segments /\ None # Host
    /\ None \notin Addresses /\ None \notin Listeners
<1>. QED  BY RegistryAssumption DEF RegistryAssumption, Scopes

LEMMA SocketTyped == Socket \in [Listeners -> Sockets]
<1>. QED  BY RegistryAssumption DEF RegistryAssumption

-----------------------------------------------------------------------------
(* Requests. *)

LEMMA NoReqTyped == NoReq \in Reqs
<1>. QED  BY DEF NoReq, Reqs, Labels, Operations

LEMMA RequestTyped ==
    ASSUME NEW op \in Operations, NEW label \in Labels,
           NEW c \in Containers \cup {None}, NEW s \in Scopes \cup {None}
    PROVE  /\ Request(op, label, c, s) = [at |-> label, op |-> op, c |-> c, s |-> s, todo |-> {}]
           /\ Request(op, label, c, s) \in Reqs
           /\ \A C \in SUBSET (Containers \cup Listeners) :
                /\ [Request(op, label, c, s) EXCEPT !.todo = C]
                     = [at |-> label, op |-> op, c |-> c, s |-> s, todo |-> C]
                /\ [Request(op, label, c, s) EXCEPT !.todo = C] \in Reqs
<1>1. Request(op, label, c, s) = [at |-> label, op |-> op, c |-> c, s |-> s, todo |-> {}]
    BY DEF Request
<1>. QED  BY <1>1 DEF Reqs

DataTyped ==
    /\ registered \subseteq Containers /\ segment \in [Containers -> Segments \cup {None}]
    /\ frozenRow \subseteq registered
    /\ segments \subseteq Segments /\ scopeData \subseteq Segments /\ configured \subseteq Segments
    /\ workers \subseteq Containers /\ frozenMem \subseteq Containers
    /\ scopeOf \in [Containers -> Scopes \cup {None}]

SideTyped ==
    /\ listening \subseteq Listeners /\ file \in [Sockets -> Listeners \cup {None}]
    /\ ipMap \in [Addresses -> Containers \cup {None}]
    /\ address \in [Containers -> Addresses \cup {None}]
    /\ refresh \in [at : {"none", "inspect"}, todo : SUBSET Containers,
                    found : SUBSET (Addresses \X Containers)]

MarksTyped ==
    /\ replaced \subseteq Containers /\ abandoned \subseteq Containers /\ forgotten \subseteq Containers
    /\ raced \subseteq Segments /\ clashed \subseteq Sockets
    /\ moved \subseteq Containers /\ moving \subseteq Containers
    /\ world \in Worlds

TypeWhole ==
    /\ DataTyped /\ SideTyped /\ MarksTyped
    /\ req \in [Handlers -> Reqs] /\ overlapped \subseteq Containers

LEMMA TypeParts == (TypeOK <=> TypeWhole) /\ (TypeOK' <=> TypeWhole')
<1>. QED  BY DEF TypeOK, TypeWhole, DataTyped, SideTyped, MarksTyped, Reqs

\* What a request at a label carries.
ReqShape(r) ==
    /\ r.at \in {"row", "copy", "segment", "scope", "start", "stop", "delete", "check", "persist", "flag"}
         <=> r.c # None
    /\ r.at \in {"row", "copy", "start"} => r.op \in {"register", "clone"}
    /\ r.at = "copy" => r.op = "clone"
    /\ r.at \in {"segment", "scope"} => r.op \in {"register", "assign", "unassign"}
    /\ r.at = "check" => r.op = "assign"
    /\ r.at \in {"stop", "delete"} => r.op = "remove"
    /\ r.at \in {"next", "persist", "flag"} => r.op \in FreezeCalls
    /\ r.at \in {"bind", "keep"} <=> r.op = "listen"
    /\ r.at = "close" <=> r.op = "unlisten"
    /\ r.op \in {"listen", "unlisten"} => \E l \in Listeners : r.todo = {l}
    /\ r.s = Host => r.at \in {"bind", "keep"}
    /\ r.at \in {"limit", "config"} => r.s # None
    /\ r.at = "none" => r = NoReq

LEMMA NoReqShape == ReqShape(NoReq)
<1>. QED  BY NoneElse DEF ReqShape, NoReq, FreezeCalls

Shaped == \A h \in Handlers : ReqShape(req[h])

\* What a step of a handler makes of its request, and of the containers that two
\* requests worked on at once.
Moves(h, r) ==
    /\ ReqShape(r)
    /\ req' = [req EXCEPT ![h] = r]
    /\ r.s \in segments \cup {None, Host, req[h].s}
    /\ overlapped' = overlapped \cup {c \in Containers : /\ c = r.c /\ c # req[h].c
                                                         /\ \E g \in Handlers \ {h} : req[g].c = c}

LEMMA BeginStep ==
    ASSUME NEW h \in Handlers, NEW r \in Reqs, ReqShape(r), Begin(h, r),
           r.s \in segments \cup {None, Host, req[h].s}, req[h].c = None
    PROVE  \E q \in Reqs : Moves(h, q)
<1>1. r.c \in Containers \cup {None}
    BY DEF Reqs
<1>2. overlapped' = overlapped \cup {c \in Containers : /\ c = r.c /\ c # req[h].c
                                                        /\ \E g \in Handlers \ {h} : req[g].c = c}
    BY <1>1, NoneElse DEF Begin
<1>. QED  BY <1>2 DEF Begin, Moves

LEMMA GoToStep ==
    ASSUME TypeOK, NEW h \in Handlers, NEW label \in Labels, GoTo(h, label),
           ReqShape([req[h] EXCEPT !.at = label])
    PROVE  \E q \in Reqs : Moves(h, q)
<1>. DEFINE r == [req[h] EXCEPT !.at = label]
<1>1. req \in [Handlers -> Reqs]
    BY TypeParts DEF TypeWhole
<1>2. r \in Reqs /\ r.c = req[h].c /\ r.s = req[h].s
    BY <1>1 DEF Reqs
<1>3. req' = [req EXCEPT ![h] = r] /\ overlapped' = overlapped
    BY DEF GoTo
<1>. HIDE DEF r
<1>4. ReqShape(r)
    BY DEF r
<1>. QED  BY <1>2, <1>3, <1>4 DEF Moves

LEMMA FinishStep ==
    ASSUME NEW h \in Handlers, Finish(h)
    PROVE  \E q \in Reqs : Moves(h, q)
<1>1. NoReq.c = None /\ NoReq.s = None
    BY DEF NoReq
<1>. QED  BY <1>1, NoReqTyped, NoReqShape, NoneElse DEF Finish, Moves

\* A request that is accepted, without and with things to do.
LEMMA AcceptStep ==
    ASSUME NEW h \in Handlers, NEW kind, NEW op \in Operations, NEW label \in Labels,
           NEW c \in Containers \cup {None}, NEW s \in Scopes \cup {None},
           s \in segments \cup {None, Host},
           ReqShape([at |-> label, op |-> op, c |-> c, s |-> s, todo |-> {}]),
           Accept(h, kind, Request(op, label, c, s))
    PROVE  \E q \in Reqs : Moves(h, q)
<1>. DEFINE r == Request(op, label, c, s)
<1>1. r \in Reqs /\ r = [at |-> label, op |-> op, c |-> c, s |-> s, todo |-> {}]
    BY RequestTyped
<1>2. Begin(h, r) /\ req[h].c = None
    BY DEF Accept, Idle, NoReq
<1>. HIDE DEF r
<1>. QED  BY <1>1, <1>2, BeginStep

LEMMA AcceptTodoStep ==
    ASSUME NEW h \in Handlers, NEW kind, NEW op \in Operations, NEW label \in Labels,
           NEW s \in Scopes \cup {None}, NEW C \in SUBSET (Containers \cup Listeners),
           s \in segments \cup {None, Host},
           ReqShape([at |-> label, op |-> op, c |-> None, s |-> s, todo |-> C]),
           Accept(h, kind, [Request(op, label, None, s) EXCEPT !.todo = C])
    PROVE  \E q \in Reqs : Moves(h, q)
<1>. DEFINE r == [Request(op, label, None, s) EXCEPT !.todo = C]
<1>1. r \in Reqs /\ r = [at |-> label, op |-> op, c |-> None, s |-> s, todo |-> C]
    BY RequestTyped
<1>2. Begin(h, r) /\ req[h].c = None
    BY DEF Accept, Idle, NoReq
<1>. HIDE DEF r
<1>. QED  BY <1>1, <1>2, BeginStep

\* Whatever a handler does, its request stays well formed.
LEMMA ServeMoves ==
    ASSUME TypeOK, Shaped, NEW h \in Handlers, Serve(h)
    PROVE  \E r \in Reqs : Moves(h, r)
<1>. DEFINE Goal == \E r \in Reqs : Moves(h, r)
<1>0. /\ req \in [Handlers -> Reqs] /\ req[h] \in Reqs /\ ReqShape(req[h])
      /\ req[h].c \in Containers \cup {None}
    BY TypeParts DEF TypeWhole, Shaped, Reqs
<1>1. ASSUME NEW c \in Containers, NEW s \in Segments \cup {None}, Register(h, c, s) PROVE Goal
  <2>1. Accept(h, "register", Request("register", "row", c, s)) /\ s \in segments \cup {None}
      BY <1>1 DEF Register
  <2>2. ReqShape([at |-> "row", op |-> "register", c |-> c, s |-> s, todo |-> {}])
      BY NoneElse DEF ReqShape
  <2>3. "register" \in Operations /\ "row" \in Labels /\ s \in Scopes \cup {None}
      BY DEF Operations, Labels, Scopes
  <2>. QED  BY <2>1, <2>2, <2>3, AcceptStep
<1>2. ASSUME NEW c \in Containers, NEW s \in Segments, Assign(h, c, s) PROVE Goal
  <2>1. Accept(h, "assign", Request("assign", "check", c, s)) /\ s \in segments
      BY <1>2 DEF Assign
  <2>2. ReqShape([at |-> "check", op |-> "assign", c |-> c, s |-> s, todo |-> {}])
      BY NoneElse DEF ReqShape
  <2>3. "assign" \in Operations /\ "check" \in Labels /\ s \in Scopes \cup {None}
      BY DEF Operations, Labels, Scopes
  <2>. QED  BY <2>1, <2>2, <2>3, AcceptStep
<1>3. ASSUME NEW c \in Containers, Clone(h, c) PROVE Goal
  <2>1. Accept(h, "clone", Request("clone", "row", c, None))
      BY <1>3 DEF Clone
  <2>2. ReqShape([at |-> "row", op |-> "clone", c |-> c, s |-> None, todo |-> {}])
      BY NoneElse DEF ReqShape
  <2>3. "clone" \in Operations /\ "row" \in Labels
      BY DEF Operations, Labels
  <2>. QED  BY <2>1, <2>2, <2>3, AcceptStep
<1>4. ASSUME NEW c \in Containers, Remove(h, c) PROVE Goal
  <2>1. Accept(h, "remove", Request("remove", "stop", c, None))
      BY <1>4 DEF Remove
  <2>2. ReqShape([at |-> "stop", op |-> "remove", c |-> c, s |-> None, todo |-> {}])
      BY NoneElse DEF ReqShape
  <2>3. "remove" \in Operations /\ "stop" \in Labels
      BY DEF Operations, Labels
  <2>. QED  BY <2>1, <2>2, <2>3, AcceptStep
<1>5. ASSUME NEW c \in Containers, Unassign(h, c) PROVE Goal
  <2>1. Accept(h, "assign", Request("unassign", "segment", c, None))
      BY <1>5 DEF Unassign
  <2>2. ReqShape([at |-> "segment", op |-> "unassign", c |-> c, s |-> None, todo |-> {}])
      BY NoneElse DEF ReqShape
  <2>3. "unassign" \in Operations /\ "segment" \in Labels
      BY DEF Operations, Labels
  <2>. QED  BY <2>1, <2>2, <2>3, AcceptStep
<1>6. ASSUME NEW c \in Containers, NextFreeze(h, c) PROVE Goal
  <2>. DEFINE changes == c \in workers /\ (c \in frozenMem <=> req[h].op = "unfreeze")
              r == [req[h] EXCEPT !.todo = @ \ {c}, !.c = IF changes THEN c ELSE None,
                                  !.at = IF changes THEN "persist" ELSE "next"]
  <2>1. Begin(h, r) /\ req[h].at = "next"
      BY <1>6 DEF NextFreeze
  <2>. HIDE DEF changes
  <2>2. r \in Reqs
      BY <1>0 DEF Reqs, Labels
  <2>3. /\ r.c = (IF changes THEN c ELSE None) /\ r.at = (IF changes THEN "persist" ELSE "next")
        /\ r.op = req[h].op /\ r.s = req[h].s
      BY <1>0 DEF Reqs
  <2>. HIDE DEF r
  <2>4. ReqShape(r)
      BY <2>1, <2>3, <1>0, NoneElse DEF ReqShape, FreezeCalls
  <2>5. req[h].c = None
      BY <2>1, <1>0 DEF ReqShape
  <2>. QED  BY <2>1, <2>2, <2>3, <2>4, <2>5, BeginStep
<1>7. ASSUME NEW s \in Segments, SegmentLimits(h, s) \/ SegmentConfig(h, s) PROVE Goal
  <2>1. /\ \/ Accept(h, "limits", Request("limits", "limit", None, s))
           \/ Accept(h, "config", Request("config", "config", None, s))
        /\ s \in segments
      BY <1>7 DEF SegmentLimits, SegmentConfig
  <2>2. /\ ReqShape([at |-> "limit", op |-> "limits", c |-> None, s |-> s, todo |-> {}])
        /\ ReqShape([at |-> "config", op |-> "config", c |-> None, s |-> s, todo |-> {}])
      BY NoneElse DEF ReqShape
  <2>3. "limits" \in Operations /\ "config" \in Operations /\ "limit" \in Labels /\ "config" \in Labels /\ s \in Scopes \cup {None}
      BY DEF Operations, Labels, Scopes
  <2>. QED  BY <2>1, <2>2, <2>3, AcceptStep
<1>8. ASSUME NEW op \in FreezeCalls, NEW C \in SUBSET Containers,
             Accept(h, "freeze", [Request(op, "next", None, None) EXCEPT !.todo = C])
      PROVE  Goal
  <2>1. ReqShape([at |-> "next", op |-> op, c |-> None, s |-> None, todo |-> C])
      BY NoneElse DEF ReqShape, FreezeCalls
  <2>2. C \in SUBSET (Containers \cup Listeners) /\ op \in Operations /\ "next" \in Labels
      BY DEF FreezeCalls, Operations, Labels
  <2>. QED  BY <1>8, <2>1, <2>2, AcceptTodoStep
<1>9. ASSUME NEW l \in Listeners, Unlisten(h, l) PROVE Goal
  <2>1. Accept(h, "listeners", [Request("unlisten", "close", None, None) EXCEPT !.todo = {l}])
      BY <1>9 DEF Unlisten
  <2>2. ReqShape([at |-> "close", op |-> "unlisten", c |-> None, s |-> None, todo |-> {l}])
      BY NoneElse DEF ReqShape
  <2>3. {l} \in SUBSET (Containers \cup Listeners) /\ "unlisten" \in Operations /\ "close" \in Labels
      BY DEF Operations, Labels
  <2>. QED  BY <2>1, <2>2, <2>3, AcceptTodoStep
<1>10. ASSUME NEW l \in Listeners, NEW s \in Scopes, Listen(h, l, s) PROVE Goal
  <2>1. /\ Accept(h, "listeners", [Request("listen", "bind", None, s) EXCEPT !.todo = {l}])
        /\ s \in segments \cup {Host}
      BY <1>10 DEF Listen
  <2>2. ReqShape([at |-> "bind", op |-> "listen", c |-> None, s |-> s, todo |-> {l}])
      BY NoneElse DEF ReqShape
  <2>3. {l} \in SUBSET (Containers \cup Listeners) /\ "listen" \in Operations /\ "bind" \in Labels
      BY DEF Operations, Labels
  <2>. QED  BY <2>1, <2>2, <2>3, AcceptTodoStep
<1>11. ASSUME NEW label \in Labels, GoTo(h, label), ReqShape([req[h] EXCEPT !.at = label]) PROVE Goal
    BY <1>11, GoToStep
<1>12. ASSUME Finish(h) PROVE Goal
    BY <1>12, FinishStep
<1>13. ASSUME NEW label \in Labels, GoTo(h, label),
              \/ req[h].at = "row" /\ label \in {"copy", "start", "segment"}
                 /\ (label = "copy" <=> req[h].op = "clone") /\ (label = "segment" => req[h].op = "register")
              \/ req[h].at = "copy" /\ label = "start"
              \/ req[h].at = "segment" /\ label = "scope"
              \/ req[h].at \in {"segment", "scope"} /\ label = "start" /\ req[h].op = "register"
              \/ req[h].at = "stop" /\ label = "delete"
              \/ req[h].at = "check" /\ label = "segment"
              \/ req[h].at = "persist" /\ label = "flag"
              \/ req[h].at = "bind" /\ label = "keep"
       PROVE  Goal
  <2>. DEFINE r == [req[h] EXCEPT !.at = label]
  <2>1. r.at = label /\ r.c = req[h].c /\ r.op = req[h].op /\ r.s = req[h].s /\ r.todo = req[h].todo
      BY <1>0 DEF Reqs
  <2>. HIDE DEF r
  <2>2. ReqShape(r)
      BY <2>1, <1>0, <1>13, NoneElse DEF ReqShape
  <2>. QED  BY <2>2, <1>11, <1>13 DEF r
<1>14. CASE StoreRow(h)
    BY <1>14, <1>13, <1>0 DEF StoreRow, Labels, ReqShape
<1>15. CASE CopyLimits(h) \/ SetSegment(h) \/ StopContainer(h) \/ PersistFrozen(h) \/ Bind(h)
  <2>1. \/ req[h].at = "copy" /\ GoTo(h, "start")
        \/ req[h].at = "segment" /\ GoTo(h, "scope")
        \/ req[h].at = "stop" /\ GoTo(h, "delete")
        \/ req[h].at = "persist" /\ GoTo(h, "flag")
        \/ req[h].at = "bind" /\ GoTo(h, "keep")
      BY <1>15 DEF CopyLimits, SetSegment, StopContainer, PersistFrozen, Bind
  <2>2. {"start", "scope", "delete", "flag", "keep"} \subseteq Labels
      BY DEF Labels
  <2>3. CASE req[h].at = "copy" /\ GoTo(h, "start")
      BY <2>2, <2>3, <1>13
  <2>4. CASE req[h].at = "segment" /\ GoTo(h, "scope")
      BY <2>2, <2>4, <1>13
  <2>5. CASE req[h].at = "stop" /\ GoTo(h, "delete")
      BY <2>2, <2>5, <1>13
  <2>6. CASE req[h].at = "persist" /\ GoTo(h, "flag")
      BY <2>2, <2>6, <1>13
  <2>7. CASE req[h].at = "bind" /\ GoTo(h, "keep")
      BY <2>2, <2>7, <1>13
  <2>. QED  BY <2>1, <2>3, <2>4, <2>5, <2>6, <2>7
<1>16. CASE \/ Fail(h) \/ StartContainer(h) \/ RemoveContainer(h) \/ SetScopeLimit(h) \/ SetSegmentConfig(h)
            \/ AllFrozen(h) \/ BindFails(h) \/ KeepListener(h) \/ CloseListener(h)
    BY <1>16, <1>12 DEF Fail, StartContainer, RemoveContainer, SetScopeLimit, SetSegmentConfig,
                        AllFrozen, BindFails, KeepListener, CloseListener
<1>17. CASE FailSegment(h) \/ SetContainerScope(h) \/ CheckAssign(h)
    BY <1>17, <1>12, <1>13 DEF FailSegment, SetContainerScope, CheckAssign, Labels
<1>18. CASE FlagFrozen(h)
  <2>. DEFINE r == [req[h] EXCEPT !.at = "next", !.c = None]
  <2>1. req' = [req EXCEPT ![h] = r] /\ overlapped' = overlapped /\ req[h].at = "flag"
      BY <1>18, <1>0 DEF FlagFrozen, Reqs
  <2>2. r \in Reqs
      BY <1>0 DEF Reqs, Labels
  <2>3. r.at = "next" /\ r.c = None /\ r.op = req[h].op /\ r.s = req[h].s
      BY <1>0 DEF Reqs
  <2>. HIDE DEF r
  <2>4. ReqShape(r)
      BY <2>1, <2>3, <1>0, NoneElse DEF ReqShape, FreezeCalls
  <2>. QED  BY <2>1, <2>2, <2>3, <2>4, NoneElse DEF Moves
<1>19. ASSUME NEW op \in FreezeCalls, \/ \E c \in Containers : FreezeOne(h, op, c)
                                      \/ \E C \in SUBSET Containers : FreezeAll(h, op, C)
       PROVE  Goal
  <2>1. \E C \in SUBSET Containers :
            Accept(h, "freeze", [Request(op, "next", None, None) EXCEPT !.todo = C])
      BY <1>19 DEF FreezeOne, FreezeAll
  <2>. QED  BY <2>1, <1>8
<1>. QED  BY <1>1, <1>2, <1>3, <1>4, <1>5, <1>6, <1>7, <1>9, <1>10, <1>14, <1>15, <1>16, <1>17, <1>18, <1>19
          DEF Serve

\* Requests stay of their type and shape.
LEMMA ReqStep ==
    ASSUME TypeOK, Shaped, NEW h \in Handlers, Serve(h)
    PROVE  req' \in [Handlers -> Reqs] /\ overlapped' \subseteq Containers /\ Shaped'
<1>1. PICK r \in Reqs : Moves(h, r)
    BY ServeMoves
<1>2. req \in [Handlers -> Reqs] /\ overlapped \subseteq Containers
    BY TypeParts DEF TypeWhole
<1>3. \A g \in Handlers : req'[g] = IF g = h THEN r ELSE req[g]
    BY <1>1, <1>2 DEF Moves
<1>. QED  BY <1>1, <1>2, <1>3 DEF Moves, Shaped

\* The data: each step changes little of it.
LEMMA DataStep ==
    ASSUME TypeOK, Shaped, NEW h \in Handlers, Serve(h)
    PROVE  DataTyped'
<1>. DEFINE c == req[h].c
            s == req[h].s
<1>0. DataTyped /\ ReqShape(req[h]) /\ c \in Containers \cup {None} /\ s \in Scopes \cup {None}
    BY TypeParts DEF TypeWhole, Shaped, Reqs
<1>1. CASE UNCHANGED <<storeVars, managerVars, scopeOf>>
    BY <1>0, <1>1 DEF DataTyped, storeVars, managerVars
<1>2. CASE \/ StoreRow(h) \/ SetSegment(h) \/ SetContainerScope(h) \/ StartContainer(h) \/ StopContainer(h)
           \/ RemoveContainer(h) \/ PersistFrozen(h) \/ FlagFrozen(h)
  <2>1. c \in Containers /\ s \in Segments \cup {None}
      BY <1>0, <1>2, NoneElse DEF ReqShape, Scopes, StoreRow, SetSegment, SetContainerScope, StartContainer,
                        StopContainer, RemoveContainer, PersistFrozen, FlagFrozen
  <2>. HIDE DEF c, s
  <2>2. CASE StoreRow(h)
      BY <2>1, <2>2, <1>0 DEF StoreRow, DataTyped, managerVars, c
  <2>3. CASE SetSegment(h)
      BY <2>1, <2>3, <1>0 DEF SetSegment, SetContainerSegment, DataTyped, managerVars, c, s
  <2>4. CASE SetContainerScope(h)
      BY <2>1, <2>4, <1>0 DEF SetContainerScope, DataTyped, storeVars, managerVars, Scopes, c, s
  <2>5. CASE StartContainer(h)
      BY <2>1, <2>5, <1>0 DEF StartContainer, DataTyped, storeVars, c
  <2>6. CASE StopContainer(h)
      BY <2>1, <2>6, <1>0 DEF StopContainer, DataTyped, storeVars, c
  <2>7. CASE RemoveContainer(h)
      BY <2>1, <2>7, <1>0 DEF RemoveContainer, DataTyped, managerVars, c
  <2>8. CASE PersistFrozen(h)
      BY <2>1, <2>8, <1>0 DEF PersistFrozen, DataTyped, managerVars, c
  <2>9. CASE FlagFrozen(h)
      BY <2>1, <2>9, <1>0 DEF FlagFrozen, DataTyped, storeVars, c
  <2>. QED  BY <1>2, <2>2, <2>3, <2>4, <2>5, <2>6, <2>7, <2>8, <2>9
<1>3. CASE SetScopeLimit(h) \/ SetSegmentConfig(h)
  <2>1. s \in Segments
      BY <1>0, <1>3, NoneElse DEF ReqShape, Scopes, SetScopeLimit, SetSegmentConfig
  <2>. QED  BY <2>1, <1>0, <1>3 DEF SetScopeLimit, SetSegmentConfig, DataTyped, managerVars
<1>. QED  BY <1>1, <1>2, <1>3 DEF Serve, Register, Assign, Clone, Remove, Unassign, NextFreeze, SegmentLimits,
          SegmentConfig, FreezeOne, FreezeAll, Unlisten, Listen, CopyLimits, Fail, FailSegment, CheckAssign,
          AllFrozen, Bind, BindFails, KeepListener, CloseListener

\* What handlers leave alone.
LEMMA ServeFrame ==
    ASSUME NEW h \in Handlers, Serve(h)
    PROVE  /\ UNCHANGED <<addressVars, segments, raced, world>>
           /\ \/ UNCHANGED listenerVars
              \/ Bind(h) \/ BindFails(h) \/ KeepListener(h) \/ CloseListener(h) \/ \E l \in Listeners : Unlisten(h, l)
<1>. QED  BY DEF Serve, Register, Assign, Clone, Remove, Unassign, NextFreeze, SegmentLimits,
          SegmentConfig, FreezeOne, FreezeAll, Unlisten, Listen, StoreRow, CopyLimits, Fail, FailSegment,
          SetSegment, SetContainerScope, StartContainer, StopContainer, RemoveContainer, SetScopeLimit,
          SetSegmentConfig, CheckAssign, AllFrozen, PersistFrozen, FlagFrozen, Bind, BindFails, KeepListener,
          CloseListener, storeVars

LEMMA SideStep ==
    ASSUME TypeOK, Shaped, NEW h \in Handlers, Serve(h)
    PROVE  SideTyped' /\ UNCHANGED <<moved, moving>> /\ clashed' \subseteq Sockets
<1>0. /\ SideTyped /\ ReqShape(req[h]) /\ clashed \subseteq Sockets
      /\ UNCHANGED addressVars
    BY TypeParts, ServeFrame DEF TypeWhole, Shaped, MarksTyped
<1>1. CASE UNCHANGED listenerVars
    BY <1>0, <1>1 DEF SideTyped, listenerVars, addressVars
<1>2. CASE Bind(h) \/ BindFails(h) \/ KeepListener(h) \/ CloseListener(h)
  <2>1. PICK l \in Listeners : req[h].todo = {l}
      BY <1>0, <1>2 DEF ReqShape, Bind, BindFails, KeepListener, CloseListener, Opening
  <2>2. Socket[l] \in Sockets
      BY SocketTyped
  <2>3. /\ listening' \subseteq listening \cup {l} /\ clashed' \subseteq clashed \cup {Socket[l]}
        /\ file' \in [Sockets -> Listeners \cup {None}]
      BY <1>0, <1>2, <2>1, <2>2 DEF Bind, BindFails, Cleans, KeepListener, CloseListener, SideTyped
  <2>. QED  BY <2>2, <2>3, <1>0 DEF SideTyped, addressVars
<1>3. ASSUME NEW l \in Listeners, Unlisten(h, l)
      PROVE  SideTyped' /\ UNCHANGED <<moved, moving>> /\ clashed' \subseteq Sockets
    BY <1>0, <1>3 DEF Unlisten, SideTyped, addressVars
<1>. QED  BY <1>1, <1>2, <1>3, ServeFrame

LEMMA MarksStep ==
    ASSUME TypeOK, Shaped, NEW h \in Handlers, Serve(h)
    PROVE  /\ replaced' \subseteq replaced \cup {req[h].c} /\ abandoned' \subseteq abandoned \cup {req[h].c}
           /\ (replaced # replaced' \/ abandoned # abandoned') => req[h].c \in Containers
           /\ forgotten' \subseteq forgotten
<1>0. ReqShape(req[h]) /\ req[h].c \in Containers \cup {None}
    BY TypeParts DEF TypeWhole, Shaped, Reqs
<1>1. CASE StoreRow(h) \/ Fail(h) \/ SetContainerScope(h) \/ StartContainer(h)
  <2>1. req[h].c \in Containers
      BY <1>0, <1>1, NoneElse DEF ReqShape, StoreRow, Fail, SetContainerScope, StartContainer
  <2>. QED  BY <1>1, <2>1 DEF StoreRow, Fail, SetContainerScope, StartContainer
<1>2. CASE UNCHANGED <<replaced, abandoned, forgotten>>
    BY <1>2
<1>. QED  BY <1>1, <1>2 DEF Serve, Register, Assign, Clone, Remove, Unassign, NextFreeze, SegmentLimits,
          SegmentConfig, FreezeOne, FreezeAll, Unlisten, Listen, CopyLimits, FailSegment, SetSegment,
          StopContainer, RemoveContainer, SetScopeLimit, SetSegmentConfig, CheckAssign, AllFrozen,
          PersistFrozen, FlagFrozen, Bind, BindFails, KeepListener, CloseListener

TypeInv == TypeOK /\ Shaped

LEMMA ServeTyped ==
    ASSUME TypeInv, NEW h \in Handlers, Serve(h)
    PROVE  TypeInv'
<1>1. MarksTyped'
    BY ServeFrame, SideStep, MarksStep, TypeParts DEF TypeWhole, TypeInv, MarksTyped
<1>2. TypeOK'
  <2>1. DataTyped' /\ SideTyped' /\ req' \in [Handlers -> Reqs] /\ overlapped' \subseteq Containers
      BY DataStep, SideStep, ReqStep DEF TypeInv
  <2>. QED  BY <2>1, <1>1, TypeParts DEF TypeWhole
<1>. QED  BY <1>2, ReqStep DEF TypeInv

LEMMA InitTyped == Init => TypeInv
<1>. SUFFICES ASSUME Init PROVE TypeInv
    OBVIOUS
<1>1. DataTyped /\ MarksTyped /\ overlapped \subseteq Containers
    BY DEF Init, DataTyped, MarksTyped
<1>2. SideTyped
    BY DEF Init, SideTyped, NoRefresh
<1>3. req \in [Handlers -> Reqs] /\ Shaped
    BY NoReqTyped, NoReqShape DEF Init, Shaped
<1>. QED  BY <1>1, <1>2, <1>3, TypeParts DEF TypeWhole, TypeInv

\* The steps that no handler takes.
LEMMA OthersTyped ==
    ASSUME TypeInv,
           \/ \E s \in Segments : CreateSegment(s) \/ DeleteSegment(s)
           \/ \E c \in Containers : RefreshInspect(c) \/ \E a \in Addresses \cup {None} : Move(c, a)
           \/ RefreshList \/ RefreshSwap \/ Restart \/ UNCHANGED vars
    PROVE  TypeInv'
<1>. DEFINE Goal == TypeInv'
<1>0. /\ DataTyped /\ SideTyped /\ MarksTyped /\ req \in [Handlers -> Reqs]
      /\ overlapped \subseteq Containers /\ Shaped
    BY TypeParts DEF TypeWhole, TypeInv
<1>1. ASSUME DataTyped', SideTyped', MarksTyped', UNCHANGED <<req, overlapped>> PROVE Goal
    BY <1>0, <1>1, TypeParts DEF TypeWhole, TypeInv, Shaped
<1>2. ASSUME NEW s \in Segments, CreateSegment(s) \/ DeleteSegment(s) PROVE Goal
  <2>1. DataTyped' /\ UNCHANGED <<req, overlapped>>
      BY <1>0, <1>2 DEF CreateSegment, DeleteSegment, DataTyped, managerVars, markVars
  <2>2. SideTyped' /\ MarksTyped'
      BY <1>0, <1>2 DEF CreateSegment, DeleteSegment, SideTyped, MarksTyped, listenerVars, addressVars, markVars
  <2>. QED  BY <1>1, <2>1, <2>2
<1>3. ASSUME NEW c \in Containers, NEW a \in Addresses \cup {None}, Move(c, a) PROVE Goal
  <2>1. DataTyped' /\ UNCHANGED <<req, overlapped>>
      BY <1>0, <1>3 DEF Move, DataTyped, storeVars, managerVars, markVars
  <2>2. SideTyped' /\ MarksTyped'
      BY <1>0, <1>3 DEF Move, SideTyped, MarksTyped, listenerVars, markVars
  <2>. QED  BY <1>1, <2>1, <2>2
<1>4. ASSUME NEW c \in Containers, RefreshInspect(c) PROVE Goal
  <2>1. DataTyped' /\ MarksTyped' /\ UNCHANGED <<req, overlapped>>
      BY <1>0, <1>4 DEF RefreshInspect, DataTyped, MarksTyped, storeVars, managerVars, listenerVars, markVars
  <2>. DEFINE found == IF address[c] = None THEN refresh.found
                       ELSE {f \in refresh.found : f[1] # address[c]} \cup {<<address[c], c>>}
  <2>2. found \subseteq Addresses \X Containers
      BY <1>0 DEF SideTyped
  <2>3. refresh' = [refresh EXCEPT !.todo = @ \ {c}, !.found = found]
      BY <1>4 DEF RefreshInspect
  <2>. HIDE DEF found
  <2>4. UNCHANGED <<listening, file, ipMap, address>>
      BY <1>4 DEF RefreshInspect, listenerVars
  <2>5. SideTyped'
      BY <1>0, <2>2, <2>3, <2>4 DEF SideTyped
  <2>. QED  BY <1>1, <2>1, <2>5
<1>5. CASE RefreshList
  <2>1. DataTyped' /\ MarksTyped' /\ UNCHANGED <<req, overlapped>>
      BY <1>0, <1>5 DEF RefreshList, DataTyped, MarksTyped, storeVars, managerVars, listenerVars, markVars
  <2>2. SideTyped'
      BY <1>0, <1>5 DEF RefreshList, SideTyped, DataTyped, listenerVars
  <2>. QED  BY <1>1, <2>1, <2>2
<1>6. CASE RefreshSwap
  <2>1. DataTyped' /\ MarksTyped' /\ UNCHANGED <<req, overlapped>>
      BY <1>0, <1>6 DEF RefreshSwap, DataTyped, MarksTyped, storeVars, managerVars, listenerVars, markVars
  <2>2. SideTyped'
      BY <1>0, <1>6 DEF RefreshSwap, SideTyped, listenerVars, NoRefresh
  <2>. QED  BY <1>1, <2>1, <2>2
<1>7. CASE Restart
  <2>1. DataTyped' /\ MarksTyped'
      BY <1>0, <1>7 DEF Restart, DataTyped, MarksTyped, storeVars
  <2>2. SideTyped'
      BY <1>0, <1>7 DEF Restart, SideTyped, NoRefresh
  <2>3. req' \in [Handlers -> Reqs] /\ Shaped' /\ overlapped' \subseteq Containers
      BY <1>7, NoReqTyped, NoReqShape DEF Restart, Shaped
  <2>. QED  BY <2>1, <2>2, <2>3, TypeParts DEF TypeWhole, TypeInv
<1>8. CASE UNCHANGED vars
  <2>1. DataTyped' /\ MarksTyped' /\ SideTyped' /\ UNCHANGED <<req, overlapped>>
      BY <1>0, <1>8 DEF vars, DataTyped, MarksTyped, SideTyped, storeVars, managerVars, listenerVars,
                        addressVars, markVars
  <2>. QED  BY <1>1, <2>1
<1>. QED  BY <1>2, <1>3, <1>4, <1>5, <1>6, <1>7, <1>8

LEMMA NextTyped == TypeInv /\ [Next]_vars => TypeInv'
<1>. QED  BY ServeTyped, OthersTyped DEF Next

\* The copies of the store, the manager, the proxy and the server are well typed in
\* every reachable state, and the store freezes registered containers only.
THEOREM RegistryTypeCorrect == Spec => []TypeOK
<1>1. Spec => []TypeInv
    BY InitTyped, NextTyped, PTL DEF Spec
<1>. QED  BY <1>1, PTL DEF TypeInv

-----------------------------------------------------------------------------
(* Segments and their data. *)

\* A row that is gone has no segment, and a request that has found a segment still
\* finds it, or it was deleted under its hands.
SegInv ==
    /\ SegmentsSound
    /\ \A c \in Containers \ registered : segment[c] = None
    /\ \A h \in Handlers : req[h].s \in segments \cup raced \cup {None, Host}

LEMMA SegServe ==
    ASSUME TypeInv, SegInv, NEW h \in Handlers, Serve(h)
    PROVE  SegInv'
<1>. DEFINE known == segments \cup raced
            c == req[h].c
            s == req[h].s
<1>0. /\ DataTyped /\ req \in [Handlers -> Reqs] /\ ReqShape(req[h]) /\ UNCHANGED <<segments, raced>>
      /\ s \in known \cup {None, Host}
      /\ \A d \in Containers : segment[d] \in known \cup {None}
    BY TypeParts, ServeFrame DEF TypeInv, TypeWhole, Shaped, SegInv, SegmentsSound, DataTyped
<1>1. \A g \in Handlers : req'[g].s \in (segments \cup raced \cup {None, Host})'
  <2>1. PICK r \in Reqs : Moves(h, r)
      BY ServeMoves DEF TypeInv
  <2>2. \A g \in Handlers : req'[g].s = IF g = h THEN r.s ELSE req[g].s
      BY <2>1, <1>0 DEF Moves
  <2>3. r.s \in segments \cup raced \cup {None, Host}
      BY <2>1, <1>0 DEF Moves
  <2>. QED  BY <2>2, <2>3, <1>0 DEF SegInv
<1>2. CASE UNCHANGED <<registered, segment, scopeData>>
    BY <1>1, <1>2, <1>0 DEF SegInv, SegmentsSound
<1>3. CASE StoreRow(h) \/ SetSegment(h) \/ RemoveContainer(h)
  <2>1. c \in Containers /\ s \in known \cup {None}
      BY <1>0, <1>3, NoneElse DEF ReqShape, StoreRow, SetSegment, RemoveContainer, Reqs
  <2>. HIDE DEF c, s
  <2>2. /\ segment' \in [Containers -> known \cup {None}] /\ registered' \subseteq Containers
        /\ \A d \in Containers \ registered' : segment'[d] = None
        /\ scopeData' \subseteq known
    <3>1. CASE StoreRow(h)
        BY <2>1, <3>1, <1>0 DEF StoreRow, DataTyped, SegInv, SegmentsSound, c
    <3>2. CASE SetSegment(h)
        BY <2>1, <3>2, <1>0 DEF SetSegment, SetContainerSegment, DataTyped, SegInv, SegmentsSound, c, s
    <3>3. CASE RemoveContainer(h)
        BY <2>1, <3>3, <1>0 DEF RemoveContainer, DataTyped, SegInv, SegmentsSound, c
    <3>. QED  BY <1>3, <3>1, <3>2, <3>3
  <2>. QED  BY <1>0, <1>1, <2>2 DEF SegInv, SegmentsSound
<1>4. CASE SetScopeLimit(h)
  <2>1. s \in known
      BY <1>0, <1>4, NoneElse DEF ReqShape, SetScopeLimit
  <2>. QED  BY <1>0, <1>1, <1>4, <2>1 DEF SetScopeLimit, SegInv, SegmentsSound
<1>. QED  BY <1>2, <1>3, <1>4 DEF Serve, Register, Assign, Clone, Remove, Unassign, NextFreeze, SegmentLimits,
          SegmentConfig, FreezeOne, FreezeAll, Unlisten, Listen, CopyLimits, Fail, FailSegment, CheckAssign,
          SetContainerScope, StartContainer, StopContainer, SetSegmentConfig, PersistFrozen, FlagFrozen,
          AllFrozen, Bind, BindFails, KeepListener, CloseListener, storeVars

LEMMA SegNext == TypeInv /\ SegInv /\ [Next]_vars => SegInv'
<1>. SUFFICES ASSUME TypeInv, SegInv, [Next]_vars PROVE SegInv'
    OBVIOUS
<1>0. DataTyped /\ MarksTyped
    BY TypeParts DEF TypeInv, TypeWhole
<1>1. ASSUME NEW s \in Segments, CreateSegment(s) PROVE SegInv'
    BY <1>1 DEF CreateSegment, SegInv, SegmentsSound, markVars
<1>2. ASSUME NEW s \in Segments, DeleteSegment(s) PROVE SegInv'
  <2>1. /\ segments' = segments \ {s} /\ scopeData' = scopeData \ {s} /\ UNCHANGED <<registered, segment, req>>
        /\ \/ raced' = raced \cup {s}
           \/ raced' = raced /\ (\A h \in Handlers : req[h].s # s)
        /\ \A c \in registered : segment[c] # s
      BY <1>2 DEF DeleteSegment
  <2>. HIDE <1>2
  <2>. QED  BY <2>1 DEF SegInv, SegmentsSound
<1>3. CASE Restart
    BY <1>3 DEF Restart, NoReq, SegInv, SegmentsSound, storeVars
<1>4. CASE UNCHANGED <<storeVars, req, raced>>
    BY <1>4 DEF SegInv, SegmentsSound, storeVars
<1>5. CASE \/ RefreshList \/ RefreshSwap \/ UNCHANGED vars
           \/ \E c \in Containers : RefreshInspect(c) \/ \E a \in Addresses \cup {None} : Move(c, a)
    BY <1>4, <1>5 DEF RefreshList, RefreshSwap, RefreshInspect, Move, markVars, vars
<1>. QED  BY <1>1, <1>2, <1>3, <1>5, SegServe DEF Next

\* For any number of segments, containers and requests at once: a registered container
\* is in a segment that exists, and only segments that exist have limits or
\* accumulated usage, but for segments deleted under the hands of a request.
THEOREM SegmentsStaySound == Spec => []SegmentsSound
<1>1. Init => SegInv
    BY DEF Init, SegInv, SegmentsSound, NoReq
<1>2. Spec => []SegInv
    BY <1>1, InitTyped, NextTyped, SegNext, PTL DEF Spec
<1>. QED  BY <1>2, PTL DEF SegInv

-----------------------------------------------------------------------------
(* The map from addresses. *)

\* What the refresh in progress has found is so of the containers that did not move
\* since it began, and those that did have moved since the last one too.
AddressInv ==
    /\ AddressOwner
    /\ moving \subseteq moved
    /\ \A f \in refresh.found : f[2] \in moving \/ address[f[2]] = f[1]

LEMMA AddressNext == TypeInv /\ AddressInv /\ [Next]_vars => AddressInv'
<1>. SUFFICES ASSUME TypeInv, AddressInv, [Next]_vars PROVE AddressInv'
    OBVIOUS
<1>0. SideTyped /\ MarksTyped
    BY TypeParts DEF TypeInv, TypeWhole
<1>1. ASSUME NEW c \in Containers, NEW a \in Addresses \cup {None}, Move(c, a) PROVE AddressInv'
  <2>1. address' = [address EXCEPT ![c] = a] /\ moved' = moved \cup {c} /\ moving' = moving \cup {c}
        /\ UNCHANGED <<ipMap, refresh>>
      BY <1>1 DEF Move
  <2>. HIDE <1>1
  <2>2. \A f \in refresh.found : f[2] \in Containers
      BY <1>0 DEF SideTyped
  <2>. QED  BY <2>1, <2>2, <1>0 DEF AddressInv, AddressOwner, SideTyped
<1>2. ASSUME NEW c \in Containers, RefreshInspect(c) PROVE AddressInv'
  <2>1. \A f \in refresh'.found : f \in refresh.found \/ f = <<address[c], c>>
      BY <1>2, <1>0 DEF RefreshInspect, SideTyped
  <2>2. UNCHANGED <<ipMap, address, moved, moving>>
      BY <1>2 DEF RefreshInspect
  <2>. QED  BY <2>1, <2>2 DEF AddressInv, AddressOwner
<1>3. CASE RefreshList
    BY <1>0, <1>3 DEF RefreshList, AddressInv, AddressOwner
<1>4. CASE RefreshSwap
  <2>1. \A a \in Addresses : ipMap'[a] \in Containers => <<a, ipMap'[a]>> \in refresh.found
    <3>. SUFFICES ASSUME NEW a \in Addresses, ipMap'[a] \in Containers
                  PROVE  <<a, ipMap'[a]>> \in refresh.found
        OBVIOUS
    <3>. DEFINE P(c) == <<a, c>> \in refresh.found
    <3>1. ipMap'[a] = IF \E c \in Containers : P(c) THEN CHOOSE c \in Containers : P(c) ELSE None
        BY <1>4 DEF RefreshSwap
    <3>2. \E c \in Containers : P(c)
        BY <3>1, NoneElse
    <3>3. P(CHOOSE c \in Containers : P(c))
        BY <3>2
    <3>. QED  BY <3>1, <3>2, <3>3
  <2>2. \A a \in Addresses, c \in Containers : <<a, c>> \in refresh.found => c \in moving \/ address[c] = a
      BY DEF AddressInv
  <2>3. moved' = moving /\ UNCHANGED <<address, moving>> /\ refresh'.found = {}
      BY <1>4 DEF RefreshSwap, NoRefresh
  <2>. QED  BY <2>1, <2>2, <2>3 DEF AddressInv, AddressOwner
<1>5. CASE Restart
    BY <1>5, NoneElse DEF Restart, NoRefresh, AddressInv, AddressOwner
<1>6. CASE UNCHANGED addressVars
    BY <1>6 DEF AddressInv, AddressOwner, addressVars
<1>7. CASE UNCHANGED vars \/ \E s \in Segments : CreateSegment(s) \/ DeleteSegment(s)
    BY <1>6, <1>7 DEF vars, CreateSegment, DeleteSegment
<1>. QED  BY <1>1, <1>2, <1>3, <1>4, <1>5, <1>6, <1>7, ServeFrame DEF Next

\* However containers move and requests interleave, what the map says of an address is
\* so for every container that did not move since its refresh began.
THEOREM AddressesRight == Spec => []AddressOwner
<1>1. Init => AddressInv
    BY NoneElse DEF Init, AddressInv, AddressOwner, NoRefresh
<1>2. Spec => []AddressInv
    BY <1>1, InitTyped, NextTyped, AddressNext, PTL DEF Spec
<1>. QED  BY <1>2, PTL DEF AddressInv

-----------------------------------------------------------------------------
(* The copies of a container's row.                                          *)

ScopeAgrees(c) == c \notin forgotten /\ segment[c] # None => scopeOf[c] = segment[c]
FrozenAgrees(c) == c \in workers \ replaced => (c \in frozenMem <=> c \in frozenRow)

\* A container that one request at a time was served for: that request has seen its
\* row, and is past half of the change where the copies disagree.
RowOK(c) ==
    /\ \A g, h \in Handlers : req[g].c = c /\ req[h].c = c => g = h
    /\ c \in workers => c \in registered
    /\ \A h \in Handlers : req[h].c = c =>
          /\ req[h].at # "row" => c \in registered
          /\ req[h].at = "delete" => c \notin workers
          /\ req[h].at = "scope" => segment[c] = req[h].s
          /\ req[h].at = "flag" => (c \in frozenRow <=> req[h].op = "freeze")
    /\ c \in registered =>
          /\ ScopeAgrees(c) \/ \E h \in Handlers : req[h].c = c /\ req[h].at = "scope"
          /\ FrozenAgrees(c) \/ \E h \in Handlers : req[h].c = c /\ req[h].at = "flag"

Served(c) == c \in registered => c \in workers \cup abandoned \/ WithoutWorkerYet(c)

RowInv ==
    /\ \A c \in Containers \ overlapped : RowOK(c)
    /\ \A c \in Containers : Served(c)

LEMMA GoToFields ==
    ASSUME TypeOK, NEW h \in Handlers, NEW label \in Labels, GoTo(h, label)
    PROVE  /\ req'[h].at = label /\ req'[h].c = req[h].c /\ req'[h].op = req[h].op /\ req'[h].s = req[h].s
           /\ \A g \in Handlers \ {h} : req'[g] = req[g]
           /\ overlapped' = overlapped
<1>1. req \in [Handlers -> Reqs]
    BY TypeParts DEF TypeWhole
<1>. QED  BY <1>1 DEF GoTo, Reqs

LEMMA FinishFields ==
    ASSUME TypeOK, NEW h \in Handlers, Finish(h)
    PROVE  /\ req'[h].at = "none" /\ req'[h].c = None
           /\ \A g \in Handlers \ {h} : req'[g] = req[g]
           /\ overlapped' = overlapped
<1>1. req \in [Handlers -> Reqs]
    BY TypeParts DEF TypeWhole
<1>. QED  BY <1>1 DEF Finish, NoReq

\* What is stored and kept of container c.
SameRow(c) ==
    /\ c \in registered' <=> c \in registered
    /\ c \in workers' <=> c \in workers
    /\ c \in frozenRow' <=> c \in frozenRow
    /\ c \in frozenMem' <=> c \in frozenMem
    /\ c \in replaced' <=> c \in replaced
    /\ c \in forgotten' <=> c \in forgotten
    /\ c \in abandoned' <=> c \in abandoned
    /\ segment'[c] = segment[c] /\ scopeOf'[c] = scopeOf[c]

\* A step that has nothing to do with container c, or that begins a request for it.
LEMMA RowElsewhere ==
    ASSUME NEW c \in Containers, NEW h \in Handlers, SameRow(c), req[h].c # c,
           \A g \in Handlers \ {h} : req'[g] = req[g],
           req'[h].c = c => \/ req'[h].at = "row"
                            \/ c \in registered \cup workers /\ req'[h].at \in {"stop", "check", "segment", "persist"}
    PROVE  /\ RowOK(c) /\ (req'[h].c = c => \A g \in Handlers \ {h} : req[g].c # c) => RowOK(c)'
           /\ Served(c) => Served(c)'
<1>1. ASSUME RowOK(c), req'[h].c = c => \A g \in Handlers \ {h} : req[g].c # c PROVE RowOK(c)'
  <2>1. \A f, g \in Handlers : req'[f].c = c /\ req'[g].c = c => f = g
      BY <1>1 DEF RowOK
  <2>2. (c \in workers => c \in registered)'
      BY <1>1 DEF RowOK, SameRow
  <2>3. \A g \in Handlers : req'[g].c = c =>
            /\ req'[g].at # "row" => c \in registered'
            /\ req'[g].at = "delete" => c \notin workers'
            /\ req'[g].at = "scope" => segment'[c] = req'[g].s
            /\ req'[g].at = "flag" => (c \in frozenRow' <=> req'[g].op = "freeze")
      BY <1>1 DEF RowOK, SameRow
  <2>4. ScopeAgrees(c)' <=> ScopeAgrees(c)
      BY DEF ScopeAgrees, SameRow
  <2>5. FrozenAgrees(c)' <=> FrozenAgrees(c)
      BY DEF FrozenAgrees, SameRow
  <2>6. ASSUME NEW g \in Handlers, req[g].c = c PROVE req'[g] = req[g]
      BY <2>6
  <2>7. c \in registered' =>
          /\ ScopeAgrees(c)' \/ \E g \in Handlers : req'[g].c = c /\ req'[g].at = "scope"
          /\ FrozenAgrees(c)' \/ \E g \in Handlers : req'[g].c = c /\ req'[g].at = "flag"
      BY <1>1, <2>4, <2>5, <2>6 DEF RowOK, SameRow
  <2>. QED  BY <2>1, <2>2, <2>3, <2>7 DEF RowOK
<1>2. ASSUME Served(c) PROVE Served(c)'
    BY <1>2 DEF Served, WithoutWorkerYet, SameRow
<1>. QED  BY <1>1, <1>2

Works(h) ==
    \/ StoreRow(h) \/ CopyLimits(h) \/ Fail(h) \/ FailSegment(h) \/ SetSegment(h) \/ SetContainerScope(h)
    \/ StartContainer(h) \/ StopContainer(h) \/ RemoveContainer(h) \/ CheckAssign(h)
    \/ PersistFrozen(h) \/ FlagFrozen(h)

LEMMA WorksOn ==
    ASSUME TypeInv, NEW h \in Handlers, Works(h)
    PROVE  req[h].c \in Containers
<1>1. ReqShape(req[h]) /\ req[h].c \in Containers \cup {None}
    BY TypeParts DEF TypeInv, TypeWhole, Shaped, Reqs
<1>. QED  BY <1>1, NoneElse DEF ReqShape, Works, StoreRow, CopyLimits, Fail, FailSegment, SetSegment,
         SetContainerScope, StartContainer, StopContainer, RemoveContainer, CheckAssign, PersistFrozen, FlagFrozen

\* A step of the request that is served for container c.
LEMMA RowHere ==
    ASSUME TypeInv, NEW h \in Handlers, NEW c \in Containers, req[h].c = c, Works(h)
    PROVE  /\ \A g \in Handlers \ {h} : req'[g] = req[g]
           /\ req'[h].c \in {c, None}
           /\ overlapped' = overlapped
           /\ \A d \in Containers : d # c => SameRow(d)
           /\ RowOK(c) => RowOK(c)'
           /\ Served(c) => Served(c)'
<1>. DEFINE Rest == \A g \in Handlers \ {h} : req'[g] = req[g]
            Others == \A d \in Containers : d # c => SameRow(d)
            Goal == /\ Rest /\ Others
                    /\ req'[h].c \in {c, None}
                    /\ overlapped' = overlapped
                    /\ RowOK(c) => RowOK(c)'
                    /\ Served(c) => Served(c)'
<1>0. /\ TypeOK /\ DataTyped /\ req \in [Handlers -> Reqs] /\ ReqShape(req[h])
      /\ req[h].s \in Scopes \cup {None} /\ c # None
    BY TypeParts, NoneElse DEF TypeInv, TypeWhole, Shaped, Reqs
<1>1. CASE StoreRow(h)
  <2>1. /\ Rest /\ overlapped' = overlapped
        /\ req'[h].c = c /\ req'[h].at \in {"copy", "start", "segment"} /\ req'[h].op = req[h].op
        /\ req[h].op \in {"register", "clone"}
      BY <1>0, <1>1, GoToFields DEF StoreRow, Labels, ReqShape
  <2>2. /\ c \in registered' /\ c \notin frozenRow' /\ segment'[c] = None
        /\ c \in registered => c \in replaced'
        /\ c \in workers' <=> c \in workers
      BY <1>0, <1>1 DEF StoreRow, DataTyped, managerVars
  <2>3. Others
      BY <1>0, <1>1 DEF StoreRow, SameRow, DataTyped, managerVars
  <2>4. Served(c)'
      BY <2>1 DEF Served, WithoutWorkerYet
  <2>5. ASSUME RowOK(c) PROVE RowOK(c)'
    <3>1. ScopeAgrees(c)' /\ FrozenAgrees(c)'
        BY <2>2, <2>5 DEF ScopeAgrees, FrozenAgrees, RowOK
    <3>. QED  BY <2>1, <2>2, <2>5, <3>1 DEF RowOK
  <2>. QED  BY <2>1, <2>3, <2>4, <2>5
\* Steps that leave the copies alone.
<1>2. ASSUME UNCHANGED <<storeVars, managerVars, scopeOf, replaced, forgotten>>,
             req[h].at \notin {"row", "scope", "flag"},
             Rest, overlapped' = overlapped,
             \/ req'[h].at \in {"start", "segment"} /\ req'[h].c = c
             \/ req'[h].c = None
      PROVE  RowOK(c) => RowOK(c)'
  <2>1. (ScopeAgrees(c)' <=> ScopeAgrees(c)) /\ (FrozenAgrees(c)' <=> FrozenAgrees(c))
      BY <1>2 DEF ScopeAgrees, FrozenAgrees, storeVars, managerVars
  <2>. SUFFICES ASSUME RowOK(c) PROVE RowOK(c)'
      OBVIOUS
  <2>2. \A g \in Handlers : req[g].c = c => g = h
      BY DEF RowOK
  <2>3. /\ c \in registered => ScopeAgrees(c) /\ FrozenAgrees(c)
        /\ c \in registered /\ (c \in workers => c \in registered)
      BY <1>2, <2>2 DEF RowOK
  <2>4. c \in registered' /\ (c \in registered' => ScopeAgrees(c)' /\ FrozenAgrees(c)')
      BY <1>2, <2>1, <2>3 DEF storeVars
  <2>5. \A g \in Handlers : req'[g].c = c => g = h /\ req'[g].at \notin {"delete", "scope", "flag"}
      BY <1>2, <1>0, <2>2
  <2>. QED  BY <2>4, <2>5 DEF RowOK
<1>3. CASE CopyLimits(h) \/ FailSegment(h) \/ CheckAssign(h)
  <2>1. /\ Rest /\ overlapped' = overlapped
        /\ \/ req'[h].at \in {"start", "segment"} /\ req'[h].c = c /\ req'[h].op = req[h].op
           \/ req'[h].c = None
        /\ req[h].op \in {"register", "clone"} => req'[h].at = "start" /\ req'[h].c = c /\ req'[h].op = req[h].op
      BY <1>0, <1>3, GoToFields, FinishFields DEF CopyLimits, FailSegment, CheckAssign, Labels, ReqShape
  <2>2. /\ UNCHANGED <<storeVars, managerVars, scopeOf, replaced, forgotten, abandoned>>
        /\ req[h].at \in {"copy", "segment", "check"}
      BY <1>3 DEF CopyLimits, FailSegment, CheckAssign
  <2>3. Others
      BY <2>2 DEF SameRow, storeVars, managerVars
  <2>4. Served(c) => Served(c)'
      BY <2>1, <2>2 DEF Served, WithoutWorkerYet, storeVars, managerVars
  <2>. QED  BY <2>1, <2>2, <2>3, <2>4, <1>2
<1>4. CASE Fail(h)
  <2>1. Rest /\ overlapped' = overlapped /\ req'[h].c = None
      BY <1>0, <1>4, FinishFields DEF Fail
  <2>2. /\ UNCHANGED <<storeVars, managerVars, scopeOf, replaced, forgotten>>
        /\ abandoned' = abandoned \cup {c} /\ req[h].at \in {"copy", "delete"}
      BY <1>4 DEF Fail
  <2>3. Others
      BY <2>2 DEF SameRow, storeVars, managerVars
  <2>4. Served(c)'
      BY <2>2 DEF Served
  <2>. QED  BY <2>1, <2>2, <2>3, <2>4, <1>2
<1>5. CASE SetSegment(h)
  <2>1. /\ Rest /\ overlapped' = overlapped
        /\ req'[h].c = c /\ req'[h].at = "scope" /\ req'[h].op = req[h].op /\ req'[h].s = req[h].s
        /\ req[h].at = "segment"
      BY <1>0, <1>5, GoToFields DEF SetSegment, Labels
  <2>2. /\ c \in registered => segment'[c] = req[h].s
        /\ UNCHANGED <<registered, frozenRow, workers, frozenMem, scopeOf, replaced, forgotten, abandoned>>
      BY <1>0, <1>5 DEF SetSegment, SetContainerSegment, DataTyped, managerVars
  <2>3. Others
      BY <1>0, <1>5 DEF SetSegment, SetContainerSegment, SameRow, DataTyped, managerVars
  <2>4. Served(c) => Served(c)'
      BY <2>1, <2>2 DEF Served, WithoutWorkerYet
  <2>5. ASSUME RowOK(c) PROVE RowOK(c)'
    <3>1. \A g \in Handlers : req[g].c = c => g = h
        BY <2>5 DEF RowOK
    <3>2. FrozenAgrees(c)' /\ c \in registered
        BY <2>1, <2>2, <2>5, <3>1 DEF FrozenAgrees, RowOK
    <3>. QED  BY <2>1, <2>2, <2>5, <3>1, <3>2 DEF RowOK
  <2>. QED  BY <2>1, <2>3, <2>4, <2>5
<1>6. CASE SetContainerScope(h)
  <2>1. /\ Rest /\ overlapped' = overlapped
        /\ \/ req'[h].at = "start" /\ req'[h].c = c /\ req'[h].op = req[h].op
           \/ req'[h].c = None
        /\ req[h].op \in {"register", "clone"} => req'[h].at = "start" /\ req'[h].c = c /\ req'[h].op = req[h].op
        /\ req[h].at = "scope"
      BY <1>0, <1>6, GoToFields, FinishFields DEF SetContainerScope, Labels, ReqShape
  <2>2. /\ req[h].s # None => scopeOf'[c] = req[h].s
        /\ UNCHANGED <<registered, segment, frozenRow, workers, frozenMem, replaced, abandoned>>
      BY <1>0, <1>6 DEF SetContainerScope, DataTyped, storeVars, managerVars
  <2>3. Others
      BY <1>0, <1>6 DEF SetContainerScope, SameRow, DataTyped, storeVars, managerVars
  <2>4. Served(c) => Served(c)'
      BY <2>1, <2>2 DEF Served, WithoutWorkerYet
  <2>5. ASSUME RowOK(c) PROVE RowOK(c)'
    <3>1. \A g \in Handlers : req[g].c = c => g = h
        BY <2>5 DEF RowOK
    <3>2. c \in registered /\ FrozenAgrees(c) /\ segment[c] = req[h].s
        BY <2>1, <2>5, <3>1 DEF RowOK
    <3>3. FrozenAgrees(c)' /\ ScopeAgrees(c)'
        BY <2>2, <3>2 DEF FrozenAgrees, ScopeAgrees
    <3>. QED  BY <1>0, <2>1, <2>2, <2>5, <3>1, <3>2, <3>3 DEF RowOK
  <2>. QED  BY <2>1, <2>3, <2>4, <2>5
<1>7. CASE StartContainer(h)
  <2>1. Rest /\ overlapped' = overlapped /\ req'[h].c = None /\ req[h].at = "start"
      BY <1>0, <1>7, FinishFields DEF StartContainer
  <2>2. /\ c \in workers' /\ UNCHANGED <<storeVars, scopeOf, replaced, forgotten>>
        /\ c \in frozenMem' <=> c \in (IF c \in workers THEN frozenMem ELSE frozenRow)
      BY <1>0, <1>7 DEF StartContainer
  <2>3. Others
      BY <1>0, <1>7 DEF StartContainer, SameRow, storeVars
  <2>4. Served(c)'
      BY <2>2 DEF Served
  <2>5. ASSUME RowOK(c) PROVE RowOK(c)'
    <3>1. \A g \in Handlers : req[g].c = c => g = h
        BY <2>5 DEF RowOK
    <3>2. c \in registered /\ FrozenAgrees(c) /\ ScopeAgrees(c)
        BY <2>1, <2>5, <3>1 DEF RowOK
    <3>3. FrozenAgrees(c)' /\ ScopeAgrees(c)'
        BY <2>2, <3>2 DEF FrozenAgrees, ScopeAgrees, storeVars
    <3>. QED  BY <1>0, <2>1, <2>2, <3>1, <3>2, <3>3 DEF RowOK, storeVars
  <2>. QED  BY <2>1, <2>3, <2>4, <2>5
<1>8. CASE StopContainer(h)
  <2>1. /\ Rest /\ overlapped' = overlapped /\ req[h].at = "stop" /\ req[h].op = "remove"
        /\ req'[h].c = c /\ req'[h].at = "delete" /\ req'[h].op = "remove"
      BY <1>0, <1>8, GoToFields DEF StopContainer, Labels, ReqShape
  <2>2. c \notin workers' /\ UNCHANGED <<storeVars, scopeOf, replaced, forgotten, abandoned>>
      BY <1>0, <1>8 DEF StopContainer
  <2>3. Others
      BY <1>0, <1>8 DEF StopContainer, SameRow, storeVars
  <2>4. Served(c)'
      BY <2>1 DEF Served, WithoutWorkerYet
  <2>5. ASSUME RowOK(c) PROVE RowOK(c)'
    <3>1. \A g \in Handlers : req[g].c = c => g = h
        BY <2>5 DEF RowOK
    <3>2. c \in registered /\ ScopeAgrees(c)
        BY <2>1, <2>5, <3>1 DEF RowOK
    <3>3. FrozenAgrees(c)' /\ ScopeAgrees(c)'
        BY <2>2, <3>2 DEF FrozenAgrees, ScopeAgrees, storeVars
    <3>. QED  BY <1>0, <2>1, <2>2, <3>1, <3>2, <3>3 DEF RowOK, storeVars
  <2>. QED  BY <2>1, <2>3, <2>4, <2>5
<1>9. CASE RemoveContainer(h)
  <2>1. Rest /\ overlapped' = overlapped /\ req'[h].c = None /\ req[h].at = "delete"
      BY <1>0, <1>9, FinishFields DEF RemoveContainer
  <2>2. c \notin registered' /\ UNCHANGED workers
      BY <1>0, <1>9 DEF RemoveContainer, managerVars
  <2>3. Others
      BY <1>0, <1>9 DEF RemoveContainer, SameRow, DataTyped, managerVars
  <2>4. Served(c)'
      BY <2>2 DEF Served
  <2>5. ASSUME RowOK(c) PROVE RowOK(c)'
    <3>1. (\A g \in Handlers : req[g].c = c => g = h) /\ c \notin workers
        BY <2>1, <2>5 DEF RowOK
    <3>. QED  BY <1>0, <2>1, <2>2, <3>1 DEF RowOK
  <2>. QED  BY <2>1, <2>3, <2>4, <2>5
<1>10. CASE PersistFrozen(h)
  <2>1. /\ Rest /\ overlapped' = overlapped /\ req[h].at = "persist" /\ req[h].op \in FreezeCalls
        /\ req'[h].c = c /\ req'[h].at = "flag" /\ req'[h].op = req[h].op
      BY <1>0, <1>10, GoToFields DEF PersistFrozen, Labels, ReqShape
  <2>2. /\ c \in registered => (c \in frozenRow' <=> req[h].op = "freeze")
        /\ UNCHANGED <<registered, segment, workers, frozenMem, scopeOf, replaced, forgotten, abandoned>>
      BY <1>0, <1>10 DEF PersistFrozen, managerVars
  <2>3. Others
      BY <1>0, <1>10 DEF PersistFrozen, SameRow, DataTyped, managerVars
  <2>4. Served(c) => Served(c)'
      BY <2>1, <2>2 DEF Served, WithoutWorkerYet
  <2>5. ASSUME RowOK(c) PROVE RowOK(c)'
    <3>1. \A g \in Handlers : req[g].c = c => g = h
        BY <2>5 DEF RowOK
    <3>2. c \in registered /\ ScopeAgrees(c)
        BY <2>1, <2>5, <3>1 DEF RowOK
    <3>3. ScopeAgrees(c)'
        BY <2>2, <3>2 DEF ScopeAgrees
    <3>. QED  BY <1>0, <2>1, <2>2, <2>5, <3>1, <3>2, <3>3 DEF RowOK
  <2>. QED  BY <2>1, <2>3, <2>4, <2>5
<1>11. CASE FlagFrozen(h)
  <2>1. /\ Rest /\ overlapped' = overlapped /\ req[h].at = "flag" /\ req[h].op \in FreezeCalls
        /\ req'[h].c = None
      BY <1>0, <1>11 DEF FlagFrozen, ReqShape, Reqs
  <2>2. /\ c \in frozenMem' <=> req[h].op = "freeze"
        /\ UNCHANGED <<storeVars, workers, scopeOf, replaced, forgotten, abandoned>>
      BY <1>0, <1>11, <2>1 DEF FlagFrozen, FreezeCalls
  <2>3. Others
      BY <1>0, <1>11 DEF FlagFrozen, SameRow, DataTyped, storeVars
  <2>4. Served(c) => Served(c)'
      BY <2>1, <2>2 DEF Served, WithoutWorkerYet, storeVars
  <2>5. ASSUME RowOK(c) PROVE RowOK(c)'
    <3>1. \A g \in Handlers : req[g].c = c => g = h
        BY <2>5 DEF RowOK
    <3>2. c \in registered /\ ScopeAgrees(c) /\ (c \in frozenRow <=> req[h].op = "freeze")
        BY <2>1, <2>5, <3>1 DEF RowOK
    <3>3. ScopeAgrees(c)'
        BY <2>2, <3>2 DEF ScopeAgrees, storeVars
    <3>4. FrozenAgrees(c)'
        BY <2>2, <3>2 DEF FrozenAgrees, storeVars
    <3>. QED  BY <1>0, <2>1, <2>2, <2>5, <3>1, <3>2, <3>3, <3>4 DEF RowOK, storeVars
  <2>. QED  BY <2>1, <2>3, <2>4, <2>5
<1>. QED  BY <1>1, <1>3, <1>4, <1>5, <1>6, <1>7, <1>8, <1>9, <1>10, <1>11 DEF Works

\* A step of a request that is served for no container, or begins to be.
LEMMA RowBegins ==
    ASSUME TypeInv, NEW h \in Handlers, Serve(h), ~Works(h)
    PROVE  /\ req[h].c = None
           /\ \A c \in Containers : SameRow(c)
           /\ \A c \in Containers : req'[h].c = c =>
                 \/ req'[h].at = "row"
                 \/ c \in registered \cup workers /\ req'[h].at \in {"stop", "check", "segment", "persist"}
<1>. DEFINE Goal == /\ req[h].c = None
                    /\ \A c \in Containers : SameRow(c)
                    /\ \A c \in Containers : req'[h].c = c =>
                          \/ req'[h].at = "row"
                          \/ c \in registered \cup workers /\ req'[h].at \in {"stop", "check", "segment", "persist"}
<1>0. /\ TypeOK /\ req \in [Handlers -> Reqs] /\ ReqShape(req[h])
    BY TypeParts DEF TypeInv, TypeWhole, Shaped
<1>1. ASSUME UNCHANGED <<registered, segment, frozenRow, managerVars, scopeOf, replaced, forgotten, abandoned>>
      PROVE  \A c \in Containers : SameRow(c)
    BY <1>1 DEF SameRow, managerVars
<1>2. ASSUME NEW kind, NEW op, NEW label, NEW d, NEW s,
             Accept(h, kind, Request(op, label, d, s))
      PROVE  req[h].c = None /\ req'[h].c = d /\ req'[h].at = label
    BY <1>0, <1>2 DEF Accept, Begin, Request, Idle, NoReq
<1>3. ASSUME NEW kind, NEW op, NEW label, NEW s, NEW C,
             Accept(h, kind, [Request(op, label, None, s) EXCEPT !.todo = C])
      PROVE  req[h].c = None /\ req'[h].c = None
    BY <1>0, <1>3 DEF Accept, Begin, Request, Idle, NoReq
<1>4. ASSUME NEW c \in Containers, \/ Clone(h, c) \/ Remove(h, c) \/ Unassign(h, c)
                                   \/ \E s \in Segments \cup {None} : Register(h, c, s)
                                   \/ \E s \in Segments : Assign(h, c, s)
      PROVE  Goal
  <2>1. /\ req[h].c = None /\ req'[h].c = c
        /\ \/ req'[h].at = "row"
           \/ c \in registered /\ req'[h].at \in {"stop", "check", "segment"}
      BY <1>2, <1>4 DEF Clone, Remove, Unassign, Register, Assign
  <2>2. UNCHANGED <<registered, segment, frozenRow, managerVars, scopeOf, replaced, forgotten, abandoned>>
      BY <1>4 DEF Clone, Remove, Unassign, Register, Assign, storeVars
  <2>. QED  BY <1>1, <2>1, <2>2
<1>5. ASSUME NEW c \in Containers, NextFreeze(h, c) PROVE Goal
  <2>. DEFINE changes == c \in workers /\ (c \in frozenMem <=> req[h].op = "unfreeze")
  <2>1. /\ req[h].c = None /\ req'[h].c = IF changes THEN c ELSE None
        /\ req'[h].at = IF changes THEN "persist" ELSE "next"
      BY <1>0, <1>5, NoneElse DEF NextFreeze, Begin, Reqs, ReqShape
  <2>2. UNCHANGED <<registered, segment, frozenRow, managerVars, scopeOf, replaced, forgotten, abandoned>>
      BY <1>5 DEF NextFreeze, storeVars
  <2>. QED  BY <1>1, <2>1, <2>2, NoneElse
<1>6. ASSUME UNCHANGED <<registered, segment, frozenRow, managerVars, scopeOf, replaced, forgotten, abandoned>>,
             req[h].c = None, req'[h].c = None
      PROVE  Goal
    BY <1>1, <1>6, NoneElse
<1>7. CASE \/ \E s \in Segments : SegmentLimits(h, s) \/ SegmentConfig(h, s)
           \/ \E op \in FreezeCalls : \/ \E c \in Containers : FreezeOne(h, op, c)
                                      \/ \E C \in SUBSET Containers : FreezeAll(h, op, C)
           \/ \E l \in Listeners : Unlisten(h, l) \/ \E s \in Scopes : Listen(h, l, s)
  <2>1. req[h].c = None /\ req'[h].c = None
      BY <1>2, <1>3, <1>7 DEF SegmentLimits, SegmentConfig, FreezeOne, FreezeAll, Unlisten, Listen
  <2>2. UNCHANGED <<registered, segment, frozenRow, managerVars, scopeOf, replaced, forgotten, abandoned>>
      BY <1>7 DEF SegmentLimits, SegmentConfig, FreezeOne, FreezeAll, Unlisten, Listen, storeVars
  <2>. QED  BY <1>6, <2>1, <2>2
<1>8. CASE \/ SetScopeLimit(h) \/ SetSegmentConfig(h) \/ AllFrozen(h) \/ Bind(h) \/ BindFails(h) \/ KeepListener(h)
           \/ CloseListener(h)
  <2>1. req[h].at \in {"limit", "config", "next", "bind", "keep", "close"}
      BY <1>8 DEF SetScopeLimit, SetSegmentConfig, AllFrozen, Bind, BindFails, KeepListener, CloseListener, Opening
  <2>2. req[h].c = None
      BY <1>0, <2>1 DEF ReqShape
  <2>3. req'[h].c = None
      BY <1>0, <1>8, <2>2, GoToFields, FinishFields
         DEF SetScopeLimit, SetSegmentConfig, AllFrozen, Bind, BindFails, KeepListener, CloseListener, Labels
  <2>4. UNCHANGED <<registered, segment, frozenRow, managerVars, scopeOf, replaced, forgotten, abandoned>>
      BY <1>8 DEF SetScopeLimit, SetSegmentConfig, AllFrozen, Bind, BindFails, KeepListener, CloseListener, storeVars
  <2>. QED  BY <1>6, <2>2, <2>3, <2>4
<1>. QED  BY <1>4, <1>5, <1>7, <1>8 DEF Serve, Works

LEMMA RowServe ==
    ASSUME TypeInv, RowInv, NEW h \in Handlers, Serve(h)
    PROVE  RowInv'
<1>0. req \in [Handlers -> Reqs]
    BY TypeParts DEF TypeInv, TypeWhole
<1>. SUFFICES ASSUME NEW c \in Containers PROVE (c \notin overlapped' => RowOK(c)') /\ Served(c)'
    BY DEF RowInv
<1>1. (c \notin overlapped => RowOK(c)) /\ Served(c)
    BY DEF RowInv
<1>2. CASE Works(h)
  <2>. DEFINE d == req[h].c
  <2>1. PICK e \in Containers : e = req[h].c
      BY <1>2, WorksOn
  <2>2. /\ \A g \in Handlers \ {h} : req'[g] = req[g]
        /\ req'[h].c \in {e, None} /\ overlapped' = overlapped
        /\ \A f \in Containers : f # e => SameRow(f)
        /\ RowOK(e) => RowOK(e)'
        /\ Served(e) => Served(e)'
      BY <1>2, <2>1, RowHere
  <2>3. CASE c = e
      BY <1>1, <2>2, <2>3
  <2>4. CASE c # e
      BY <1>1, <2>1, <2>2, <2>4, RowElsewhere, NoneElse
  <2>. QED  BY <2>3, <2>4
<1>3. CASE ~Works(h)
  <2>1. PICK r \in Reqs : Moves(h, r)
      BY ServeMoves DEF TypeInv
  <2>2. /\ \A g \in Handlers \ {h} : req'[g] = req[g]
        /\ req'[h] = r
      BY <1>0, <2>1 DEF Moves
  <2>3. /\ c \notin overlapped' => c \notin overlapped
        /\ c \notin overlapped' /\ c = r.c /\ c # req[h].c => \A g \in Handlers \ {h} : req[g].c # c
      BY <2>1 DEF Moves
  <2>4. /\ req[h].c # c /\ SameRow(c)
        /\ req'[h].c = c => \/ req'[h].at = "row"
                            \/ c \in registered \cup workers /\ req'[h].at \in {"stop", "check", "segment", "persist"}
      BY <1>3, RowBegins, NoneElse
  <2>. QED  BY <1>1, <2>2, <2>3, <2>4, RowElsewhere
<1>. QED  BY <1>2, <1>3

LEMMA RowNext == TypeInv /\ RowInv /\ [Next]_vars => RowInv'
<1>. SUFFICES ASSUME TypeInv, RowInv, [Next]_vars PROVE RowInv'
    OBVIOUS
<1>1. ASSUME UNCHANGED <<req, overlapped, registered, segment, frozenRow, managerVars, scopeOf,
                         replaced, forgotten, abandoned>>
      PROVE  RowInv'
    BY <1>1 DEF RowInv, RowOK, Served, WithoutWorkerYet, ScopeAgrees, FrozenAgrees, managerVars
<1>2. CASE \/ \E s \in Segments : CreateSegment(s) \/ DeleteSegment(s)
           \/ \E c \in Containers : RefreshInspect(c) \/ \E a \in Addresses \cup {None} : Move(c, a)
           \/ RefreshList \/ RefreshSwap \/ UNCHANGED vars
    BY <1>1, <1>2 DEF CreateSegment, DeleteSegment, RefreshInspect, Move, RefreshList, RefreshSwap,
                      vars, storeVars, markVars
<1>3. CASE Restart
  <2>1. /\ \A h \in Handlers : req'[h].c = None
        /\ registered' = registered /\ workers' = registered
        /\ frozenMem' = registered \cap frozenRow /\ frozenRow' = frozenRow
        /\ forgotten' = {c \in registered : segment[c] # None} /\ segment' = segment
      BY <1>3 DEF Restart, NoReq, storeVars
  <2>2. \A c \in Containers : c \in registered => ScopeAgrees(c)' /\ FrozenAgrees(c)'
      BY <2>1 DEF ScopeAgrees, FrozenAgrees
  <2>. QED  BY <2>1, <2>2, NoneElse DEF RowInv, RowOK, Served
<1>. QED  BY <1>2, <1>3, RowServe DEF Next

LEMMA RowInvariant == Spec => [](TypeInv /\ RowInv)
<1>1. Init => RowInv
    BY NoneElse DEF Init, NoReq, RowInv, RowOK, Served
<1>. QED  BY <1>1, InitTyped, NextTyped, RowNext, PTL DEF Spec

\* For any number of requests at once, with failures and restarts: every managed
\* container has a worker, and every worker a row, but for those in the course of a
\* request, abandoned by one, or worked on by two at once.
THEOREM WorkersOfRows == Spec => []WorkersMatchRows
<1>1. TypeInv /\ RowInv => WorkersMatchRows
  <2>. SUFFICES ASSUME TypeInv, RowInv PROVE WorkersMatchRows
      OBVIOUS
  <2>1. DataTyped
      BY TypeParts DEF TypeInv, TypeWhole
  <2>. QED  BY <2>1 DEF RowInv, RowOK, Served, WorkersMatchRows, DataTyped
<1>. QED  BY <1>1, RowInvariant, PTL

\* For any number of requests at once: the proxy's scope of a container and the
\* manager's frozen flag are the store's once no request is served for the container.
THEOREM CopiesStayEqual == Spec => []CopiesAgree
<1>1. TypeInv /\ RowInv => CopiesAgree
  <2>. SUFFICES ASSUME TypeInv, RowInv, NEW c \in registered \ overlapped, Free(c)
                PROVE  ScopeAgrees(c) /\ FrozenAgrees(c)
      BY DEF CopiesAgree, ScopeAgrees, FrozenAgrees
  <2>1. c \in Containers
      BY TypeParts DEF TypeInv, TypeWhole, DataTyped
  <2>. QED  BY <2>1 DEF RowInv, RowOK, Free
<1>. QED  BY <1>1, RowInvariant, PTL

-----------------------------------------------------------------------------
(* Scoped listeners. *)

Listens(h) == req[h].op \in {"listen", "unlisten"}

\* A listener is in the hands of one request or in the map; two that are open at the
\* same path have clashed; and one that is kept, or about to be, has its file.
ListenInv ==
    /\ \A g, h \in Handlers : \A l \in Listeners :
          Listens(g) /\ Listens(h) /\ l \in req[g].todo /\ l \in req[h].todo => g = h
    /\ \A h \in Handlers, l \in Listeners : Listens(h) /\ l \in req[h].todo => l \notin listening
    /\ \A k, l \in Listeners : Open(k) /\ Open(l) /\ k # l /\ Socket[k] = Socket[l] => Socket[l] \in clashed
    /\ \A l \in Listeners :
          /\ l \in listening \/ \E h \in Handlers : Opening(h) /\ l \in req[h].todo
          /\ Socket[l] \notin clashed
          => file[Socket[l]] = l

\* Steps of requests that have nothing to do with listeners.
LEMMA ListenElsewhere ==
    ASSUME TypeInv, NEW h \in Handlers, Serve(h),
           ~(Bind(h) \/ BindFails(h) \/ KeepListener(h) \/ CloseListener(h)),
           \A l \in Listeners : ~Unlisten(h, l) /\ \A s \in Scopes : ~Listen(h, l, s)
    PROVE  ~Listens(h) /\ ~Listens(h)'
<1>0. /\ TypeOK /\ req \in [Handlers -> Reqs] /\ ReqShape(req[h])
    BY TypeParts DEF TypeInv, TypeWhole, Shaped
<1>1. ASSUME NEW kind, NEW op, NEW label, NEW d, NEW s, op \notin {"listen", "unlisten"},
             Accept(h, kind, Request(op, label, d, s))
      PROVE  ~Listens(h) /\ ~Listens(h)'
    BY <1>0, <1>1 DEF Accept, Begin, Request, Idle, NoReq, Listens
<1>2. ASSUME NEW kind, NEW op, NEW label, NEW s, NEW C, op \notin {"listen", "unlisten"},
             Accept(h, kind, [Request(op, label, None, s) EXCEPT !.todo = C])
      PROVE  ~Listens(h) /\ ~Listens(h)'
    BY <1>0, <1>2 DEF Accept, Begin, Request, Idle, NoReq, Listens
<1>3. CASE Works(h) \/ SetScopeLimit(h) \/ SetSegmentConfig(h) \/ AllFrozen(h)
  <2>1. req[h].at \notin {"bind", "keep", "close"}
      BY <1>3 DEF Works, StoreRow, CopyLimits, Fail, FailSegment, SetSegment, SetContainerScope, StartContainer,
         StopContainer, RemoveContainer, CheckAssign, PersistFrozen, FlagFrozen, SetScopeLimit, SetSegmentConfig, AllFrozen
  <2>2. ~Listens(h)
      BY <1>0, <2>1 DEF ReqShape, Listens
  <2>3. req'[h].op \in {req[h].op, "none"}
    <3>1. \/ \E label \in Labels : GoTo(h, label)
          \/ Finish(h) \/ FlagFrozen(h)
        BY <1>3 DEF Works, StoreRow, CopyLimits, Fail, FailSegment, SetSegment, SetContainerScope, StartContainer,
           StopContainer, RemoveContainer, CheckAssign, PersistFrozen, SetScopeLimit, SetSegmentConfig, AllFrozen, Labels
    <3>2. CASE Finish(h)
        BY <1>0, <3>2 DEF Finish, NoReq
    <3>3. CASE FlagFrozen(h)
        BY <1>0, <3>3 DEF FlagFrozen, Reqs
    <3>. QED  BY <1>0, <3>1, <3>2, <3>3, GoToFields
  <2>. QED  BY <2>2, <2>3 DEF Listens
<1>4. ASSUME NEW c \in Containers, NextFreeze(h, c) PROVE ~Listens(h) /\ ~Listens(h)'
  <2>1. req[h].at = "next" /\ req'[h].op = req[h].op
      BY <1>0, <1>4 DEF NextFreeze, Begin, Reqs
  <2>. QED  BY <1>0, <2>1 DEF ReqShape, Listens
<1>5. CASE \/ \E s \in Segments : SegmentLimits(h, s) \/ SegmentConfig(h, s)
           \/ \E op \in FreezeCalls : \/ \E c \in Containers : FreezeOne(h, op, c)
                                      \/ \E C \in SUBSET Containers : FreezeAll(h, op, C)
    BY <1>1, <1>2, <1>5 DEF SegmentLimits, SegmentConfig, FreezeOne, FreezeAll, FreezeCalls
<1>6. CASE \E c \in Containers : \/ Clone(h, c) \/ Remove(h, c) \/ Unassign(h, c)
                                 \/ \E s \in Segments \cup {None} : Register(h, c, s)
                                 \/ \E s \in Segments : Assign(h, c, s)
    BY <1>1, <1>6 DEF Clone, Remove, Unassign, Register, Assign
<1>. QED  BY <1>3, <1>4, <1>5, <1>6 DEF Serve, Works

LEMMA ListenServe ==
    ASSUME TypeInv, ListenInv, NEW h \in Handlers, Serve(h)
    PROVE  ListenInv'
<1>0. /\ TypeOK /\ SideTyped /\ req \in [Handlers -> Reqs] /\ ReqShape(req[h])
    BY TypeParts DEF TypeInv, TypeWhole, Shaped
<1>1. \A g \in Handlers \ {h} : req'[g] = req[g]
  <2>1. PICK r \in Reqs : Moves(h, r)
      BY ServeMoves DEF TypeInv
  <2>. QED  BY <1>0, <2>1 DEF Moves
<1>2. ASSUME NEW l \in Listeners, NEW s \in Scopes, Listen(h, l, s) PROVE ListenInv'
  <2>1. /\ ~Listens(h) /\ req'[h].op = "listen" /\ req'[h].at = "bind" /\ req'[h].todo = {l}
        /\ ~Open(l) /\ \A g \in Handlers : l \notin req[g].todo
        /\ UNCHANGED <<listening, file, clashed>>
      BY <1>0, <1>2 DEF Listen, Accept, Begin, Request, Idle, NoReq, Listens, listenerVars
  <2>2. \A k \in Listeners : Open(k)' <=> Open(k)
      BY <1>1, <2>1 DEF Open, Opening, Closing, Listens
  <2>. QED  BY <1>1, <2>1, <2>2 DEF ListenInv, Listens, Open, Opening
<1>3. CASE Bind(h)
  <2>1. PICK l \in Listeners : req[h].todo = {l}
      BY <1>0, <1>3 DEF ReqShape, Bind
  <2>2. /\ req[h].op = "listen" /\ req'[h].op = "listen" /\ req[h].at = "bind" /\ req'[h].at = "keep"
        /\ req'[h].todo = {l}
      BY <1>0, <1>3, <2>1 DEF Bind, GoTo, Reqs, ReqShape
  <2>3. /\ file' = [file EXCEPT ![Socket[l]] = l] /\ listening' = listening
        /\ clashed' = IF \E k \in Listeners : Open(k) /\ Socket[k] = Socket[l]
                      THEN clashed \cup {Socket[l]} ELSE clashed
      BY <1>3, <2>1 DEF Bind, Cleans
  <2>4. \A k \in Listeners : Open(k)' <=> Open(k) \/ k = l
      BY <1>1, <2>1, <2>2, <2>3 DEF Open, Opening, Closing
  <2>5. Socket[l] \in Sockets
      BY SocketTyped
  <2>6. \A k \in Listeners : k # l /\ Socket[k] = Socket[l] /\ Open(k) => Socket[l] \in clashed'
      BY <2>3
  <2>7. \A k \in Listeners : (k \in listening \/ \E g \in Handlers : Opening(g) /\ k \in req[g].todo) => Open(k)
      BY DEF Open
  <2>8. \A k \in Listeners :
            /\ k \in listening' \/ \E g \in Handlers : Opening(g)' /\ k \in req'[g].todo
            /\ Socket[k] \notin clashed'
            => file'[Socket[k]] = k
    <3>. SUFFICES ASSUME NEW k \in Listeners, Socket[k] \notin clashed',
                         k \in listening' \/ \E g \in Handlers : Opening(g)' /\ k \in req'[g].todo
                  PROVE  file'[Socket[k]] = k
        OBVIOUS
    <3>1. CASE k = l
        BY <1>0, <2>3, <2>5, <3>1 DEF SideTyped
    <3>2. CASE k # l
      <4>1. k \in listening \/ \E g \in Handlers : Opening(g) /\ k \in req[g].todo
          BY <1>1, <2>2, <2>3, <3>2 DEF Opening
      <4>2. Socket[k] # Socket[l] /\ Socket[k] \notin clashed
          BY <2>3, <2>6, <2>7, <3>2, <4>1
      <4>3. file[Socket[k]] = k
          BY <4>1, <4>2 DEF ListenInv
      <4>. QED  BY <1>0, <2>3, <2>5, <4>2, <4>3 DEF SideTyped
    <3>. QED  BY <3>1, <3>2
  <2>9. \A j, k \in Listeners : Open(j)' /\ Open(k)' /\ j # k /\ Socket[j] = Socket[k] => Socket[k] \in clashed'
      BY <2>3, <2>4, <2>6 DEF ListenInv
  <2>10. /\ \A f, g \in Handlers : \A k \in Listeners :
               Listens(f)' /\ Listens(g)' /\ k \in req'[f].todo /\ k \in req'[g].todo => f = g
         /\ \A g \in Handlers, k \in Listeners : Listens(g)' /\ k \in req'[g].todo => k \notin listening'
    <3>1. \A g \in Handlers : (Listens(g)' <=> Listens(g)) /\ req'[g].todo = req[g].todo
        BY <1>1, <2>1, <2>2 DEF Listens
    <3>. QED  BY <2>3, <3>1 DEF ListenInv
  <2>. QED  BY <2>8, <2>9, <2>10 DEF ListenInv
<1>4. CASE KeepListener(h)
  <2>1. PICK l \in Listeners : req[h].todo = {l}
      BY <1>0, <1>4 DEF ReqShape, KeepListener, Opening
  <2>2. /\ req[h].op = "listen" /\ req'[h].op = "none" /\ req[h].at = "keep"
        /\ listening' = listening \cup {l} /\ UNCHANGED <<file, clashed>>
      BY <1>0, <1>4, <2>1 DEF KeepListener, Opening, Finish, NoReq
  <2>3. \A k \in Listeners : Open(k)' <=> Open(k)
      BY <1>1, <2>1, <2>2 DEF Open, Opening, Closing
  <2>4. \A g \in Handlers : Listens(g)' => Listens(g) /\ g # h /\ req'[g] = req[g]
      BY <1>1, <2>2 DEF Listens
  <2>5. \A k \in Listeners :
            k \in listening' \/ (\E g \in Handlers : Opening(g)' /\ k \in req'[g].todo)
            => k \in listening \/ \E g \in Handlers : Opening(g) /\ k \in req[g].todo
      BY <1>1, <2>1, <2>2 DEF Opening
  <2>. QED  BY <2>1, <2>2, <2>3, <2>4, <2>5 DEF ListenInv, Listens
<1>5. ASSUME NEW l \in Listeners, Unlisten(h, l) PROVE ListenInv'
  <2>1. /\ ~Listens(h) /\ req'[h].op = "unlisten" /\ req'[h].at = "close" /\ req'[h].todo = {l}
        /\ l \in listening /\ listening' = listening \ {l} /\ UNCHANGED <<file, clashed>>
      BY <1>0, <1>5 DEF Unlisten, Accept, Begin, Request, Idle, NoReq, Listens
  <2>2. \A k \in Listeners : Open(k)' => Open(k)
      BY <1>1, <2>1 DEF Open, Opening, Closing, Listens
  <2>. QED  BY <1>1, <2>1, <2>2 DEF ListenInv, Listens, Opening
<1>6. CASE CloseListener(h)
  <2>1. PICK l \in Listeners : req[h].todo = {l}
      BY <1>0, <1>6 DEF ReqShape, CloseListener
  <2>2. /\ req[h].op = "unlisten" /\ req'[h].op = "none" /\ UNCHANGED <<listening, clashed>>
        /\ \A p \in Sockets : p # Socket[l] => file'[p] = file[p]
      BY <1>0, <1>6, <2>1 DEF CloseListener, Finish, NoReq, ReqShape
  <2>3. Open(l) /\ \A k \in Listeners : Open(k)' => Open(k)
      BY <1>1, <2>1, <2>2 DEF Open, Opening, Closing
  <2>4. \A g \in Handlers : Listens(g)' => Listens(g) /\ g # h /\ req'[g] = req[g]
      BY <1>1, <2>2 DEF Listens
  <2>5. ASSUME NEW k \in Listeners, Socket[k] \notin clashed,
               k \in listening \/ \E g \in Handlers : Opening(g)' /\ k \in req'[g].todo
        PROVE  file'[Socket[k]] = k
    <3>1. (k \in listening \/ \E g \in Handlers : Opening(g) /\ k \in req[g].todo /\ g # h) /\ k # l
        BY <1>1, <2>1, <2>2, <2>5 DEF Opening, Listens, ListenInv
    <3>2. Open(k)
        BY <3>1 DEF Open
    <3>3. Socket[k] # Socket[l] /\ Socket[k] \in Sockets
        BY <2>3, <2>5, <3>1, <3>2, SocketTyped DEF ListenInv
    <3>. QED  BY <2>2, <2>5, <3>1, <3>3 DEF ListenInv
  <2>. QED  BY <2>2, <2>3, <2>4, <2>5 DEF ListenInv
<1>7. CASE BindFails(h)
  <2>1. PICK l \in Listeners : req[h].todo = {l}
      BY <1>0, <1>7 DEF ReqShape, BindFails
  <2>2. /\ req[h].op = "listen" /\ req'[h].op = "none" /\ req[h].at = "bind"
      BY <1>0, <1>7 DEF BindFails, Finish, NoReq, ReqShape
  <2>3. /\ file' = [file EXCEPT ![Socket[l]] = None] /\ listening' = listening
        /\ clashed' = IF \E k \in Listeners : Open(k) /\ Socket[k] = Socket[l]
                      THEN clashed \cup {Socket[l]} ELSE clashed
      BY <1>7, <2>1 DEF BindFails, Cleans
  <2>4. \A k \in Listeners : Open(k)' <=> Open(k)
      BY <1>1, <2>2, <2>3 DEF Open, Opening, Closing
  <2>5. \A g \in Handlers : Listens(g)' => Listens(g) /\ g # h /\ req'[g] = req[g]
      BY <1>1, <2>2 DEF Listens
  <2>6. ASSUME NEW k \in Listeners, Socket[k] \notin clashed',
               k \in listening \/ \E g \in Handlers : Opening(g)' /\ k \in req'[g].todo
        PROVE  file'[Socket[k]] = k
    <3>1. k \in listening \/ \E g \in Handlers : Opening(g) /\ k \in req[g].todo
        BY <1>1, <2>2, <2>6 DEF Opening
    <3>2. Open(k)
        BY <3>1 DEF Open
    <3>3. Socket[k] # Socket[l] /\ Socket[k] \notin clashed /\ Socket[k] \in Sockets
        BY <2>3, <2>6, <3>2, SocketTyped
    <3>4. file[Socket[k]] = k
        BY <3>1, <3>3 DEF ListenInv
    <3>. QED  BY <1>0, <2>3, <3>3, <3>4 DEF SideTyped
  <2>. QED  BY <2>3, <2>4, <2>5, <2>6 DEF ListenInv
<1>8. CASE /\ ~(Bind(h) \/ BindFails(h) \/ KeepListener(h) \/ CloseListener(h))
           /\ \A l \in Listeners : ~Unlisten(h, l) /\ \A s \in Scopes : ~Listen(h, l, s)
  <2>1. ~Listens(h) /\ ~Listens(h)'
      BY <1>8, ListenElsewhere
  <2>2. UNCHANGED <<listening, file, clashed>>
      BY <1>8, ServeFrame DEF listenerVars
  <2>3. \A g \in Handlers : Listens(g)' <=> Listens(g)
      BY <1>1, <2>1 DEF Listens
  <2>4. \A g \in Handlers : Listens(g) => req'[g] = req[g]
      BY <1>1, <2>1
  <2>5. \A k \in Listeners : Open(k)' <=> Open(k)
      BY <2>2, <2>3, <2>4 DEF Open, Opening, Closing, Listens
  <2>. QED  BY <2>2, <2>3, <2>4, <2>5 DEF ListenInv, Opening, Listens
<1>. QED  BY <1>2, <1>3, <1>4, <1>5, <1>6, <1>7, <1>8

LEMMA ListenNext == TypeInv /\ ListenInv /\ [Next]_vars => ListenInv'
<1>. SUFFICES ASSUME TypeInv, ListenInv, [Next]_vars PROVE ListenInv'
    OBVIOUS
<1>1. CASE UNCHANGED <<req, listenerVars>>
    BY <1>1 DEF ListenInv, Listens, Open, Opening, Closing, listenerVars
<1>2. CASE \/ \E s \in Segments : CreateSegment(s) \/ DeleteSegment(s)
           \/ \E c \in Containers : RefreshInspect(c) \/ \E a \in Addresses \cup {None} : Move(c, a)
           \/ RefreshList \/ RefreshSwap \/ UNCHANGED vars
    BY <1>1, <1>2 DEF CreateSegment, DeleteSegment, RefreshInspect, Move, RefreshList, RefreshSwap, vars
<1>3. CASE Restart
  <2>1. listening' = {} /\ \A h \in Handlers : ~Listens(h)'
      BY <1>3 DEF Restart, NoReq, Listens
  <2>. QED  BY <2>1 DEF ListenInv, Listens, Open, Opening, Closing
<1>. QED  BY <1>2, <1>3, ListenServe DEF Next

\* However listeners are added and removed at once, by any number of requests: one that
\* is kept has its socket's file, unless two were at that path.
THEOREM ListenersStayReachable == Spec => []ListenersReachable
<1>1. Init => ListenInv
    BY DEF Init, NoReq, ListenInv, Listens, Open, Opening, Closing
<1>2. Spec => [](TypeInv /\ ListenInv)
    BY <1>1, InitTyped, NextTyped, ListenNext, PTL DEF Spec
<1>3. TypeInv /\ ListenInv => ListenersReachable
    BY TypeParts DEF TypeInv, TypeWhole, SideTyped, ListenInv, ListenersReachable
<1>. QED  BY <1>2, <1>3, PTL
=============================================================================
