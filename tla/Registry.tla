------------------------------ MODULE Registry ------------------------------
(***************************************************************************)
(* Who is managed, and where: registering, cloning and removing containers, *)
(* segments and their containers, freezing many containers, the listeners   *)
(* of a scope and the map from addresses to containers.  Four parts of the  *)
(* daemon keep a copy of this: the store, the enforcement manager, the      *)
(* proxy and the API server.                                                *)
(*                                                                         *)
(* As in module Limits a request is a handler that holds no lock between    *)
(* the calls it makes, and each call is one action, but for a listener's    *)
(* path, which is cleaned and bound in one.                                 *)
(***************************************************************************)
EXTENDS Naturals, FiniteSets

CONSTANTS
    Containers,
    Segments,
    Host,          \* the host scope
    None,
    Addresses,     \* addresses on the Docker network
    Listeners,     \* identities of scoped listeners
    Sockets,       \* paths of unix sockets
    Socket,        \* the path each of them is to have
    Handlers,      \* the goroutines that serve requests
    Worlds         \* what may happen in a behaviour

\* What a world may have: requests of each kind, several at once, failing calls of the
\* store, addresses that change, restarts.
Happenings == {"register", "again", "clone", "remove", "assign", "segments", "limits", "config", "freeze",
               "listeners", "addresses", "together", "fail", "restart"}

Scopes == Segments \cup {Host}

ASSUME RegistryAssumption ==
    /\ Host \notin Segments /\ None \notin Scopes \cup Containers \cup Addresses \cup Listeners
    /\ Socket \in [Listeners -> Sockets]
    /\ Worlds \subseteq [who : SUBSET Containers, may : SUBSET Happenings]

VARIABLES
    \* the store
    registered,    \* the rows of containers
    segment,       \* their segment_id
    frozenRow,     \* containers frozen in the store
    segments,      \* the rows of segments
    scopeData,     \* segments with limits or accumulated usage
    configured,    \* segments with configuration of their own
    \* the manager
    workers,       \* containers with a worker
    frozenMem,     \* containers frozen in memory
    \* the proxy
    scopeOf,       \* containerScopes
    \* the server
    listening,     \* scopedListeners
    file,          \* whose socket the file at each path is
    ipMap,         \* the container of each address
    refresh,       \* the refresh of that map which is in progress
    \* Docker
    address,       \* where each container really is
    \* control
    req,           \* the request each handler serves
    \* auxiliary: read by no guard but those of the bounds
    overlapped,    \* containers two of whose requests were served at once
    raced,         \* segments deleted while a request that had found them was served
    replaced,      \* containers whose row was replaced
    abandoned,     \* containers with a request that failed half-way
    forgotten,     \* containers whose scope was lost in a restart
    clashed,       \* sockets that two listeners had at once
    moved,         \* containers whose address changed since the map's refresh began
    moving,        \* the same, for the refresh in progress
    world

storeVars == <<registered, segment, frozenRow, segments, scopeData, configured>>
managerVars == <<workers, frozenMem>>
listenerVars == <<listening, file, clashed>>
addressVars == <<ipMap, refresh, address, moved, moving>>
markVars == <<overlapped, raced, replaced, abandoned, forgotten>>
vars == <<storeVars, managerVars, scopeOf, listenerVars, addressVars, req, markVars, world>>

NoReq == [at |-> "none", op |-> "none", c |-> None, s |-> None, todo |-> {}]
NoRefresh == [at |-> "none", todo |-> {}, found |-> {}]

Init ==
    /\ registered = {} /\ segment = [c \in Containers |-> None]
    /\ frozenRow = {} /\ segments = {} /\ scopeData = {} /\ configured = {}
    /\ workers = {} /\ frozenMem = {}
    /\ scopeOf = [c \in Containers |-> None]
    /\ listening = {} /\ file = [p \in Sockets |-> None]
    /\ ipMap = [a \in Addresses |-> None] /\ refresh = NoRefresh
    /\ address = [c \in Containers |-> None]
    /\ req = [h \in Handlers |-> NoReq]
    /\ overlapped = {} /\ raced = {} /\ replaced = {} /\ abandoned = {} /\ forgotten = {}
    /\ clashed = {} /\ moved = {} /\ moving = {}
    /\ world \in Worlds

-----------------------------------------------------------------------------
(* Control of a request. *)

Idle(h) == req[h] = NoReq
Quiet == \A h \in Handlers : Idle(h)
Free(c) == \A h \in Handlers : req[h].c # c

\* A request begins its work on container c, or on the next of several.
Begin(h, r) ==
    /\ req' = [req EXCEPT ![h] = r]
    /\ overlapped' = IF r.c # None /\ \E g \in Handlers \ {h} : req[g].c = r.c
                     THEN overlapped \cup {r.c} ELSE overlapped

Accept(h, kind, r) ==
    /\ kind \in world.may
    /\ Idle(h)
    /\ Quiet \/ "together" \in world.may
    /\ Begin(h, r)

Request(op, label, c, s) == [at |-> label, op |-> op, c |-> c, s |-> s, todo |-> {}]

GoTo(h, label) == req' = [req EXCEPT ![h].at = label] /\ UNCHANGED overlapped
Finish(h) == req' = [req EXCEPT ![h] = NoReq] /\ UNCHANGED overlapped

\* UPDATE containers SET segment_id: nothing for a row that is gone.
SetContainerSegment(c, s) ==
    segment' = IF c \in registered THEN [segment EXCEPT ![c] = s] ELSE segment

-----------------------------------------------------------------------------
(* handleRegister and handleClone. *)

\* GetSegment comes first.
Register(h, c, s) ==
    /\ c \in world.who
    /\ c \in registered => "again" \in world.may
    /\ s \in segments \cup {None}
    /\ Accept(h, "register", Request("register", "row", c, s))
    /\ UNCHANGED <<storeVars, managerVars, scopeOf, listenerVars, addressVars>>
    /\ UNCHANGED <<raced, replaced, abandoned, forgotten, world>>

\* Docker gives the clone a new id: nobody knows anything of it.
Clone(h, d) ==
    /\ d \in world.who \ (registered \cup workers \cup frozenMem)
    /\ Free(d) /\ scopeOf[d] = None
    /\ registered # {}
    /\ Accept(h, "clone", Request("clone", "row", d, None))
    /\ UNCHANGED <<storeVars, managerVars, scopeOf, listenerVars, addressVars>>
    /\ UNCHANGED <<raced, replaced, abandoned, forgotten, world>>

\* INSERT OR REPLACE: a row that is replaced loses its segment and is not frozen.
StoreRow(h) ==
    LET c == req[h].c IN
    /\ req[h].at = "row"
    /\ registered' = registered \cup {c}
    /\ segment' = [segment EXCEPT ![c] = None]
    /\ frozenRow' = frozenRow \ {c}
    /\ replaced' = IF c \in registered THEN replaced \cup {c} ELSE replaced
    /\ GoTo(h, IF req[h].op = "clone" THEN "copy" ELSE IF req[h].s = None THEN "start" ELSE "segment")
    /\ UNCHANGED <<configured, segments, scopeData, managerVars, scopeOf, listenerVars, addressVars>>
    /\ UNCHANGED <<raced, abandoned, forgotten, world>>

\* CopyLimits of the clone.
CopyLimits(h) ==
    /\ req[h].at = "copy"
    /\ GoTo(h, "start")
    /\ UNCHANGED <<storeVars, managerVars, scopeOf, listenerVars, addressVars>>
    /\ UNCHANGED <<raced, replaced, abandoned, forgotten, world>>

\* A request that fails after some of its work is answered with an error and ends.
Fail(h) ==
    /\ "fail" \in world.may
    /\ req[h].at \in {"copy", "delete"}
    /\ abandoned' = abandoned \cup {req[h].c}
    /\ Finish(h)
    /\ UNCHANGED <<storeVars, managerVars, scopeOf, listenerVars, addressVars>>
    /\ UNCHANGED <<raced, replaced, forgotten, world>>

\* SetContainerSegment of a registration, an assignment or an unassignment.
SetSegment(h) ==
    /\ req[h].at = "segment"
    /\ SetContainerSegment(req[h].c, req[h].s)
    /\ GoTo(h, "scope")
    /\ UNCHANGED <<configured, registered, frozenRow, segments, scopeData, managerVars, scopeOf, listenerVars, addressVars>>
    /\ UNCHANGED <<raced, replaced, abandoned, forgotten, world>>

\* The error is logged by a registration, which goes on, and answered by the others.
FailSegment(h) ==
    /\ "fail" \in world.may
    /\ req[h].at = "segment"
    /\ IF req[h].op = "register" THEN GoTo(h, "start") ELSE Finish(h)
    /\ UNCHANGED <<storeVars, managerVars, scopeOf, listenerVars, addressVars>>
    /\ UNCHANGED <<raced, replaced, abandoned, forgotten, world>>

\* Mutant: the proxy is told of assignments alone.
SetScopeOfAssigned(h) ==
    /\ req[h].at = "scope"
    /\ scopeOf' = IF req[h].op = "register" THEN scopeOf ELSE
                  [scopeOf EXCEPT ![req[h].c] = IF req[h].s = None THEN Host ELSE req[h].s]
    /\ IF req[h].op = "register" THEN GoTo(h, "start") ELSE Finish(h)
    /\ UNCHANGED <<storeVars, managerVars, listenerVars, addressVars>>
    /\ UNCHANGED <<raced, replaced, abandoned, forgotten, world>>

SetContainerScope(h) ==
    /\ req[h].at = "scope"
    /\ scopeOf' = [scopeOf EXCEPT ![req[h].c] = IF req[h].s = None THEN Host ELSE req[h].s]
    /\ forgotten' = forgotten \ {req[h].c}
    /\ IF req[h].op = "register" THEN GoTo(h, "start") ELSE Finish(h)
    /\ UNCHANGED <<storeVars, managerVars, listenerVars, addressVars>>
    /\ UNCHANGED <<raced, replaced, abandoned, world>>

\* StartContainer does nothing when there is a worker, and else loads the frozen flag.
StartContainer(h) ==
    LET c == req[h].c IN
    /\ req[h].at = "start"
    /\ workers' = workers \cup {c}
    /\ frozenMem' = IF c \in workers THEN frozenMem
                    ELSE (frozenMem \ {c}) \cup ({c} \cap frozenRow)
    /\ abandoned' = abandoned \ {c}
    /\ Finish(h)
    /\ UNCHANGED <<storeVars, scopeOf, listenerVars, addressVars>>
    /\ UNCHANGED <<raced, replaced, forgotten, world>>

-----------------------------------------------------------------------------
(* DELETE of a container. *)

\* Mutant: the worker is left running.
RemoveWithoutStopping(h, c) ==
    /\ c \in registered
    /\ Accept(h, "remove", Request("remove", "delete", c, None))
    /\ UNCHANGED <<storeVars, managerVars, scopeOf, listenerVars, addressVars>>
    /\ UNCHANGED <<raced, replaced, abandoned, forgotten, world>>

Remove(h, c) ==
    /\ c \in registered
    /\ Accept(h, "remove", Request("remove", "stop", c, None))
    /\ UNCHANGED <<storeVars, managerVars, scopeOf, listenerVars, addressVars>>
    /\ UNCHANGED <<raced, replaced, abandoned, forgotten, world>>

StopContainer(h) ==
    LET c == req[h].c IN
    /\ req[h].at = "stop"
    /\ workers' = workers \ {c}
    /\ frozenMem' = IF c \in workers THEN frozenMem \ {c} ELSE frozenMem
    /\ GoTo(h, "delete")
    /\ UNCHANGED <<storeVars, scopeOf, listenerVars, addressVars>>
    /\ UNCHANGED <<raced, replaced, abandoned, forgotten, world>>

\* RemoveContainer: one transaction; the segment's accumulator gets what was used.
RemoveContainer(h) ==
    LET c == req[h].c IN
    /\ req[h].at = "delete"
    /\ registered' = registered \ {c}
    /\ segment' = [segment EXCEPT ![c] = None]
    /\ frozenRow' = frozenRow \ {c}
    /\ scopeData' \in {scopeData, scopeData \cup ({segment[c]} \ {None})}
    /\ Finish(h)
    /\ UNCHANGED <<configured, segments, managerVars, scopeOf, listenerVars, addressVars>>
    /\ UNCHANGED <<raced, replaced, abandoned, forgotten, world>>

-----------------------------------------------------------------------------
(* Segments, their limits and their containers. *)

CreateSegment(s) ==
    /\ "segments" \in world.may
    /\ s \notin segments
    /\ segments' = segments \cup {s}
    /\ UNCHANGED <<configured, registered, segment, frozenRow, scopeData, managerVars, scopeOf, listenerVars, addressVars>>
    /\ UNCHANGED <<req, markVars, world>>

\* Mutant: the containers of the segment are not counted.
DeleteSegmentUncounted(s) ==
    /\ "segments" \in world.may
    /\ segments' = segments \ {s}
    /\ scopeData' = scopeData \ {s}
    /\ raced' = IF \E h \in Handlers : req[h].s = s THEN raced \cup {s} ELSE raced
    /\ UNCHANGED <<configured, registered, segment, frozenRow, managerVars, scopeOf, listenerVars, addressVars>>
    /\ UNCHANGED <<req, overlapped, replaced, abandoned, forgotten, world>>

\* The count and the deletions are under one lock.  The configuration stays.
DeleteSegment(s) ==
    /\ "segments" \in world.may
    /\ \A c \in registered : segment[c] # s
    /\ segments' = segments \ {s}
    /\ scopeData' = scopeData \ {s}
    /\ raced' = IF \E h \in Handlers : req[h].s = s THEN raced \cup {s} ELSE raced
    /\ UNCHANGED <<configured, registered, segment, frozenRow, managerVars, scopeOf, listenerVars, addressVars>>
    /\ UNCHANGED <<req, overlapped, replaced, abandoned, forgotten, world>>

\* handleSegmentLimits: GetSegment, then SetScopeLimit.
SegmentLimits(h, s) ==
    /\ s \in segments
    /\ Accept(h, "limits", Request("limits", "limit", None, s))
    /\ UNCHANGED <<storeVars, managerVars, scopeOf, listenerVars, addressVars>>
    /\ UNCHANGED <<raced, replaced, abandoned, forgotten, world>>

SetScopeLimit(h) ==
    /\ req[h].at = "limit"
    /\ scopeData' = scopeData \cup {req[h].s}
    /\ Finish(h)
    /\ UNCHANGED <<configured, registered, segment, frozenRow, segments, managerVars, scopeOf, listenerVars, addressVars>>
    /\ UNCHANGED <<raced, replaced, abandoned, forgotten, world>>

\* handleSegmentConfig: GetSegment, then SetSegmentConfig.
SegmentConfig(h, s) ==
    /\ s \in segments
    /\ Accept(h, "config", Request("config", "config", None, s))
    /\ UNCHANGED <<storeVars, managerVars, scopeOf, listenerVars, addressVars>>
    /\ UNCHANGED <<raced, replaced, abandoned, forgotten, world>>

SetSegmentConfig(h) ==
    /\ req[h].at = "config"
    /\ configured' = configured \cup {req[h].s}
    /\ Finish(h)
    /\ UNCHANGED <<registered, segment, frozenRow, segments, scopeData, managerVars, scopeOf, listenerVars, addressVars>>
    /\ UNCHANGED <<raced, replaced, abandoned, forgotten, world>>

\* handleSegmentAssign: GetSegment, GetContainer, SetContainerSegment, SetContainerScope.
Assign(h, c, s) ==
    /\ s \in segments
    /\ c \in registered
    /\ Accept(h, "assign", Request("assign", "check", c, s))
    /\ UNCHANGED <<storeVars, managerVars, scopeOf, listenerVars, addressVars>>
    /\ UNCHANGED <<raced, replaced, abandoned, forgotten, world>>

CheckAssign(h) ==
    LET c == req[h].c IN
    /\ req[h].at = "check"
    /\ IF c \in registered /\ segment[c] \in {None, req[h].s} THEN GoTo(h, "segment") ELSE Finish(h)
    /\ UNCHANGED <<storeVars, managerVars, scopeOf, listenerVars, addressVars>>
    /\ UNCHANGED <<raced, replaced, abandoned, forgotten, world>>

\* handleSegmentUnassign: the segment is set to NULL and the scope to the host.
Unassign(h, c) ==
    /\ c \in registered /\ segment[c] # None
    /\ Accept(h, "assign", Request("unassign", "segment", c, None))
    /\ UNCHANGED <<storeVars, managerVars, scopeOf, listenerVars, addressVars>>
    /\ UNCHANGED <<raced, replaced, abandoned, forgotten, world>>

-----------------------------------------------------------------------------
(* Freezing and unfreezing all containers of a scope, or one. *)

Members(s) == IF s = Host THEN registered ELSE {c \in registered : segment[c] = s}

FreezeCalls == {"freeze", "unfreeze"}

\* handleFreeze and handleUnfreeze.
FreezeOne(h, op, c) ==
    /\ c \in registered
    /\ Accept(h, "freeze", [Request(op, "next", None, None) EXCEPT !.todo = {c}])
    /\ UNCHANGED <<storeVars, managerVars, scopeOf, listenerVars, addressVars>>
    /\ UNCHANGED <<raced, replaced, abandoned, forgotten, world>>

FreezeAll(h, op, C) ==
    /\ C \in {Members(s) : s \in Scopes} /\ C # {}
    /\ Accept(h, "freeze", [Request(op, "next", None, None) EXCEPT !.todo = C])
    /\ UNCHANGED <<storeVars, managerVars, scopeOf, listenerVars, addressVars>>
    /\ UNCHANGED <<raced, replaced, abandoned, forgotten, world>>

\* Freeze and Unfreeze begin with a look at the manager's maps.
NextFreeze(h, c) ==
    /\ req[h].at = "next" /\ c \in req[h].todo
    /\ LET changes == c \in workers /\ (c \in frozenMem <=> req[h].op = "unfreeze") IN
       Begin(h, [req[h] EXCEPT !.todo = @ \ {c}, !.c = IF changes THEN c ELSE None,
                               !.at = IF changes THEN "persist" ELSE "next"])
    /\ UNCHANGED <<storeVars, managerVars, scopeOf, listenerVars, addressVars>>
    /\ UNCHANGED <<raced, replaced, abandoned, forgotten, world>>

AllFrozen(h) ==
    /\ req[h].at = "next" /\ req[h].todo = {}
    /\ Finish(h)
    /\ UNCHANGED <<storeVars, managerVars, scopeOf, listenerVars, addressVars>>
    /\ UNCHANGED <<raced, replaced, abandoned, forgotten, world>>

\* Mutant: a row that is gone is written again.
PersistFrozenAnew(h) ==
    LET c == req[h].c IN
    /\ req[h].at = "persist"
    /\ frozenRow' = IF req[h].op = "freeze" THEN frozenRow \cup {c} ELSE frozenRow \ {c}
    /\ GoTo(h, "flag")
    /\ UNCHANGED <<configured, registered, segment, segments, scopeData, managerVars, scopeOf, listenerVars, addressVars>>
    /\ UNCHANGED <<raced, replaced, abandoned, forgotten, world>>

\* SetFrozen, also an UPDATE.
PersistFrozen(h) ==
    LET c == req[h].c IN
    /\ req[h].at = "persist"
    /\ frozenRow' = IF req[h].op = "freeze" THEN frozenRow \cup ({c} \cap registered) ELSE frozenRow \ {c}
    /\ GoTo(h, "flag")
    /\ UNCHANGED <<configured, registered, segment, segments, scopeData, managerVars, scopeOf, listenerVars, addressVars>>
    /\ UNCHANGED <<raced, replaced, abandoned, forgotten, world>>

FlagFrozen(h) ==
    LET c == req[h].c IN
    /\ req[h].at = "flag"
    /\ frozenMem' = IF req[h].op = "freeze" THEN frozenMem \cup {c} ELSE frozenMem \ {c}
    /\ req' = [req EXCEPT ![h].at = "next", ![h].c = None] /\ UNCHANGED overlapped
    /\ UNCHANGED <<storeVars, workers, scopeOf, listenerVars, addressVars>>
    /\ UNCHANGED <<raced, replaced, abandoned, forgotten, world>>

-----------------------------------------------------------------------------
(* Scoped listeners. *)

Opening(h) == req[h].op = "listen" /\ req[h].at = "keep"
Closing(h) == req[h].op = "unlisten"
Open(l) == l \in listening \/ \E h \in Handlers : l \in req[h].todo /\ (Opening(h) \/ Closing(h))

\* The segment of the scope is looked up; then a stale socket is removed and bound
\* anew, whoever has it; then the listener is kept.
Listen(h, l, s) ==
    /\ ~Open(l) /\ \A g \in Handlers : l \notin req[g].todo
    /\ s \in segments \cup {Host}
    /\ Accept(h, "listeners", [Request("listen", "bind", None, s) EXCEPT !.todo = {l}])
    /\ UNCHANGED <<storeVars, managerVars, scopeOf, listenerVars, addressVars>>
    /\ UNCHANGED <<raced, replaced, abandoned, forgotten, world>>

Cleans(l) ==
    clashed' = IF \E k \in Listeners : Open(k) /\ Socket[k] = Socket[l]
               THEN clashed \cup {Socket[l]} ELSE clashed

Bind(h) ==
    /\ req[h].at = "bind"
    /\ \E l \in req[h].todo : file' = [file EXCEPT ![Socket[l]] = l] /\ Cleans(l)
    /\ GoTo(h, "keep")
    /\ UNCHANGED <<storeVars, managerVars, scopeOf, listening, addressVars>>
    /\ UNCHANGED <<raced, replaced, abandoned, forgotten, world>>

\* The path cannot be bound; whoever's file was there is gone.
BindFails(h) ==
    /\ "fail" \in world.may /\ req[h].at = "bind"
    /\ \E l \in req[h].todo : file' = [file EXCEPT ![Socket[l]] = None] /\ Cleans(l)
    /\ Finish(h)
    /\ UNCHANGED <<storeVars, managerVars, scopeOf, listening, addressVars>>
    /\ UNCHANGED <<raced, replaced, abandoned, forgotten, world>>

KeepListener(h) ==
    /\ Opening(h)
    /\ listening' = listening \cup req[h].todo
    /\ Finish(h)
    /\ UNCHANGED <<storeVars, managerVars, scopeOf, file, clashed, addressVars>>
    /\ UNCHANGED <<raced, replaced, abandoned, forgotten, world>>

\* Mutant: the listener is closed and stays in the map.
UnlistenKeeping(h, l) ==
    /\ l \in listening
    /\ Accept(h, "listeners", [Request("unlisten", "close", None, None) EXCEPT !.todo = {l}])
    /\ UNCHANGED <<storeVars, managerVars, scopeOf, listenerVars, addressVars>>
    /\ UNCHANGED <<raced, replaced, abandoned, forgotten, world>>

Unlisten(h, l) ==
    /\ l \in listening
    /\ listening' = listening \ {l}
    /\ Accept(h, "listeners", [Request("unlisten", "close", None, None) EXCEPT !.todo = {l}])
    /\ UNCHANGED <<storeVars, managerVars, scopeOf, file, clashed, addressVars>>
    /\ UNCHANGED <<raced, replaced, abandoned, forgotten, world>>

\* Closing a unix listener unlinks its path, whoever's file is there by then.
CloseListener(h) ==
    /\ req[h].at = "close"
    /\ file' = [p \in Sockets |-> IF \E l \in req[h].todo : Socket[l] = p THEN None ELSE file[p]]
    /\ Finish(h)
    /\ UNCHANGED <<storeVars, managerVars, scopeOf, listening, clashed, addressVars>>
    /\ UNCHANGED <<raced, replaced, abandoned, forgotten, world>>

-----------------------------------------------------------------------------
(* The map from addresses to containers, by which the proxy tells who calls. *)

\* Docker: a container starts with a free address, or loses it when it stops.
Move(c, a) ==
    /\ "addresses" \in world.may
    /\ address[c] # a /\ (a # None => \A d \in Containers : address[d] # a)
    /\ address' = [address EXCEPT ![c] = a]
    /\ moved' = moved \cup {c} /\ moving' = moving \cup {c}
    /\ UNCHANGED <<storeVars, managerVars, scopeOf, listenerVars, ipMap, refresh, req, markVars, world>>

\* refreshIPs lists the containers, inspects each, and replaces the map.
RefreshList ==
    /\ "addresses" \in world.may
    /\ refresh = NoRefresh
    /\ refresh' = [at |-> "inspect", todo |-> registered, found |-> {}]
    /\ moving' = {}
    /\ UNCHANGED <<storeVars, managerVars, scopeOf, listenerVars, ipMap, address, moved, req, markVars, world>>

RefreshInspect(c) ==
    /\ c \in refresh.todo
    /\ refresh' = [refresh EXCEPT !.todo = @ \ {c}, !.found =
                     IF address[c] = None THEN @
                     ELSE {f \in @ : f[1] # address[c]} \cup {<<address[c], c>>}]
    /\ UNCHANGED <<storeVars, managerVars, scopeOf, listenerVars, ipMap, address, moved, moving, req, markVars, world>>

\* Mutant: the new addresses are merged into the map.
RefreshMerge ==
    /\ refresh.at = "inspect" /\ refresh.todo = {}
    /\ ipMap' = [a \in Addresses |->
                    IF \E c \in Containers : <<a, c>> \in refresh.found
                    THEN CHOOSE c \in Containers : <<a, c>> \in refresh.found ELSE ipMap[a]]
    /\ refresh' = NoRefresh
    /\ moved' = moving
    /\ UNCHANGED <<storeVars, managerVars, scopeOf, listenerVars, address, moving, req, markVars, world>>

RefreshSwap ==
    /\ refresh.at = "inspect" /\ refresh.todo = {}
    /\ ipMap' = [a \in Addresses |->
                    IF \E c \in Containers : <<a, c>> \in refresh.found
                    THEN CHOOSE c \in Containers : <<a, c>> \in refresh.found ELSE None]
    /\ refresh' = NoRefresh
    /\ moved' = moving
    /\ UNCHANGED <<storeVars, managerVars, scopeOf, listenerVars, address, moving, req, markVars, world>>

-----------------------------------------------------------------------------
\* The daemon starts again with what is in the store: StartAll starts a worker for
\* each row; nothing restores the proxy's scopes, and listeners are gone.
Restart ==
    /\ "restart" \in world.may
    /\ workers' = registered
    /\ frozenMem' = registered \cap frozenRow
    /\ scopeOf' = [c \in Containers |-> None]
    /\ listening' = {} /\ file' = [p \in Sockets |-> None] /\ clashed' = {}
    /\ ipMap' = [a \in Addresses |-> None] /\ refresh' = NoRefresh
    /\ moved' = {} /\ moving' = {}
    /\ req' = [h \in Handlers |-> NoReq]
    /\ overlapped' = {} /\ replaced' = {} /\ abandoned' = {}
    /\ forgotten' = {c \in registered : segment[c] # None}
    /\ UNCHANGED <<storeVars, address, raced, world>>

Serve(h) ==
    \/ \E c \in Containers : \/ \E s \in Segments \cup {None} : Register(h, c, s)
                            \/ \E s \in Segments : Assign(h, c, s)
                            \/ Clone(h, c) \/ Remove(h, c) \/ Unassign(h, c) \/ NextFreeze(h, c)
    \/ \E s \in Segments : SegmentLimits(h, s) \/ SegmentConfig(h, s)
    \/ \E op \in FreezeCalls :
          \/ \E c \in Containers : FreezeOne(h, op, c)
          \/ \E C \in SUBSET Containers : FreezeAll(h, op, C)
    \/ \E l \in Listeners : Unlisten(h, l) \/ \E s \in Scopes : Listen(h, l, s)
    \/ StoreRow(h) \/ CopyLimits(h) \/ Fail(h) \/ FailSegment(h) \/ SetSegment(h) \/ SetContainerScope(h)
    \/ StartContainer(h) \/ StopContainer(h) \/ RemoveContainer(h)
    \/ SetScopeLimit(h) \/ SetSegmentConfig(h) \/ CheckAssign(h)
    \/ AllFrozen(h) \/ PersistFrozen(h) \/ FlagFrozen(h)
    \/ Bind(h) \/ BindFails(h) \/ KeepListener(h) \/ CloseListener(h)

Next ==
    \/ \E h \in Handlers : Serve(h)
    \/ \E s \in Segments : CreateSegment(s) \/ DeleteSegment(s)
    \/ \E c \in Containers : RefreshInspect(c) \/ \E a \in Addresses \cup {None} : Move(c, a)
    \/ RefreshList \/ RefreshSwap
    \/ Restart

Spec == Init /\ [][Next]_vars

-----------------------------------------------------------------------------
(* Properties. *)

Labels == {"none", "row", "copy", "segment", "scope", "start", "stop", "delete", "limit", "config", "check",
           "next", "persist", "flag", "bind", "keep", "close"}
Operations == {"none", "register", "clone", "remove", "assign", "unassign", "limits", "config", "freeze",
               "unfreeze", "listen", "unlisten"}

TypeOK ==
    /\ registered \subseteq Containers /\ segment \in [Containers -> Segments \cup {None}]
    /\ frozenRow \subseteq registered
    /\ segments \subseteq Segments /\ scopeData \subseteq Segments /\ configured \subseteq Segments
    /\ workers \subseteq Containers /\ frozenMem \subseteq Containers
    /\ scopeOf \in [Containers -> Scopes \cup {None}]
    /\ listening \subseteq Listeners /\ file \in [Sockets -> Listeners \cup {None}]
    /\ ipMap \in [Addresses -> Containers \cup {None}]
    /\ address \in [Containers -> Addresses \cup {None}]
    /\ refresh \in [at : {"none", "inspect"}, todo : SUBSET Containers,
                    found : SUBSET (Addresses \X Containers)]
    /\ req \in [Handlers -> [at : Labels, op : Operations, c : Containers \cup {None},
                             s : Scopes \cup {None}, todo : SUBSET (Containers \cup Listeners)]]
    /\ overlapped \subseteq Containers /\ replaced \subseteq Containers
    /\ abandoned \subseteq Containers /\ forgotten \subseteq Containers
    /\ raced \subseteq Segments /\ clashed \subseteq Sockets
    /\ moved \subseteq Containers /\ moving \subseteq Containers
    /\ world \in Worlds

\* Limits are only enforced by workers.  A managed container has one, but while it is
\* being registered or removed, or when a request that did failed half-way; and a
\* worker without a row, which would run until the daemon stops, takes two requests
\* for the container at once.
WithoutWorkerYet(c) ==
    \E h \in Handlers :
        /\ req[h].c = c
        /\ \/ req[h].op \in {"register", "clone"} /\ req[h].at \in {"copy", "segment", "scope", "start"}
           \/ req[h].op = "remove" /\ req[h].at = "delete"
WorkersMatchRows ==
    /\ \A c \in registered : c \in workers \cup abandoned \/ WithoutWorkerYet(c)
    /\ workers \subseteq registered \cup overlapped

\* SEGMENTS.md: a segment with containers cannot be deleted, and what was limited or
\* accumulated for a segment goes with it.  That holds for every segment that was
\* not deleted while a request that had found it was served.
SegmentsSound ==
    /\ \A c \in registered : segment[c] \in segments \cup raced \cup {None}
    /\ scopeData \subseteq segments \cup raced

\* The proxy blocks a container for the segment it is in, and the manager holds the
\* frozen ones the store has, once no request is served for the container.  Not so
\* after two were at once, nor of a scope that a restart forgot, nor of a flag
\* whose row registration replaced.
CopiesAgree ==
    \A c \in registered \ overlapped : Free(c) =>
        /\ c \notin forgotten /\ segment[c] # None => scopeOf[c] = segment[c]
        /\ c \in workers \ replaced => (c \in frozenMem <=> c \in frozenRow)

\* A scoped listener that is kept can be reached, unless two listeners had its path.
ListenersReachable ==
    \A l \in listening : Socket[l] \notin clashed => file[Socket[l]] = l

\* What the map says of an address is so for every container that did not move
\* since the refresh that made the map began.
AddressOwner ==
    \A a \in Addresses : ipMap[a] \in Containers \ moved => address[ipMap[a]] = a
=============================================================================
