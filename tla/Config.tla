------------------------------- MODULE Config -------------------------------
(***************************************************************************)
(* PUT /config over the limits of module Limits: a request's keys are       *)
(* applied to memory one after the other, in the order of a Go map, then    *)
(* merged into config.json, which is loaded again when the daemon starts.   *)
(*                                                                         *)
(* A key stands for all those that are treated alike: a plain key is a       *)
(* provider's switch, an API key or the webhooks, "models" is a setting of   *)
(* the Ollama queue, "url" makes the queue.  Each has two values.           *)
(*                                                                         *)
(* persistConfig takes a file it cannot read for an empty one, and only logs *)
(* that it could not write: the request succeeds all the same.              *)
(***************************************************************************)
EXTENDS Limits

CONSTANTS
    PlainKeys,     \* keys that are only stored
    Provider,      \* the one of them, Ollama's switch, that others change too
    Wrong,         \* a value of the wrong type
    Unset,         \* a setting as the environment left it
    MaxKeys        \* bound: keys in a request

ASSUME ConfigAssumption ==
    /\ Provider \in PlainKeys /\ PlainKeys \cap {"keep", "models", "url"} = {}
    /\ Wrong \notin BOOLEAN /\ Unset \notin BOOLEAN /\ MaxKeys \in Nat

VARIABLES
    conf,          \* the settings in memory, but for the mode
    disk,          \* the settings in config.json
    torn,          \* config.json is truncated and not yet written
    put,           \* the PUT /config each handler serves
    loading,       \* the keys that are still to be loaded at start
    accepted,      \* auxiliary: the settings of requests that succeeded
    unsaved,       \* auxiliary: those of them that could not be written
    touched        \* auxiliary: memory was changed by a request that stores nothing

configVars == <<conf, disk, torn, put, loading, accepted, unsaved, touched>>
vars == <<limitsVars, configVars>>

StoredKeys == PlainKeys \cup {"models", "url"}
Keys == StoredKeys \cup {"keep"}
IsSettings(f, Values) ==
    /\ f = [k \in DOMAIN f |-> f[k]]
    /\ DOMAIN f \subseteq Keys
    /\ \A k \in DOMAIN f : f[k] \in Values
Empty == [k \in {} |-> TRUE]
But(f, k) == [j \in DOMAIN f \ {k} |-> f[j]]
Over(f, g) == [k \in DOMAIN f \cup DOMAIN g |-> IF k \in DOMAIN f THEN f[k] ELSE g[k]]

NoPut == [at |-> "none", todo |-> Empty, body |-> Empty, file |-> Empty]
HasQueue == conf["url"] # Unset

Init ==
    /\ LimitsInit
    /\ conf = [k \in StoredKeys |-> Unset]
    /\ disk = IF world.keep THEN [k \in {"keep"} |-> TRUE] ELSE Empty
    /\ torn = FALSE
    /\ put = [h \in Handlers |-> NoPut]
    /\ loading = Empty
    /\ accepted = disk
    /\ unsaved = {}
    /\ touched = FALSE

NoPuts == \A h \in Handlers : put[h] = NoPut
Serving == loading = Empty

-----------------------------------------------------------------------------
(* applyConfig. *)

\* validateCurrentLimitsConsistent, whose reads are one here: it is in no world in
\* which other requests run at the same time.  What it finds, of the limits and of the
\* accumulator it can read; reading the host's may fail as a whole.
SumsRead ==
    IF MayFail
    THEN {SumFunctionOnSet(limit, C) + removed : C \in SUBSET registered, removed \in {0, accum}}
    ELSE {SumFunctionOnSet(limit, registered) + accum}
Consistent(sum) == hostLimit # 0 => sum <= hostLimit

\* Mutant: the type of a value is not checked.
ApplicableUnchecked(k, value) ==
    /\ k = "models" => HasQueue
    /\ k = "keep" /\ value = TRUE => \E sum \in SumsRead : Consistent(sum)

Applicable(k, value) ==
    /\ value # Wrong
    /\ k = "models" => HasQueue
    /\ k = "keep" /\ value = TRUE => \E sum \in SumsRead : Consistent(sum)

Refusable(k, value) ==
    \/ value = Wrong
    \/ k = "models" /\ ~HasQueue
    \/ k = "keep" /\ value = TRUE /\ (MayFail \/ \E sum \in SumsRead : ~Consistent(sum))

\* The first URL makes the queue and turns its provider on (initOllama).
ApplyKey(k, value) ==
    /\ keep' = IF k = "keep" THEN value ELSE keep
    /\ conf' = [j \in StoredKeys |->
                    IF j = k THEN value
                    ELSE IF j = Provider /\ k = "url" /\ ~HasQueue THEN TRUE
                    ELSE conf[j]]

\* The URL comes first, and the rest in any order.
MayApply(k, todo) == k \in DOMAIN todo /\ ("url" \in DOMAIN todo => k = "url")

-----------------------------------------------------------------------------
(* PUT /config and PUT /providers. *)

\* The bodies of requests in each world.
KeysOf(w) == (IF "plain" \in w.may THEN PlainKeys ELSE {})
             \cup (IF "mode" \in w.may THEN {"keep"} ELSE {})
             \cup (IF "url" \in w.may THEN {"models", "url"} ELSE {})
ValuesOf(w) == BOOLEAN \cup (IF "refuse" \in w.may THEN {Wrong} ELSE {})
Bodies ==
    [w \in Worlds |-> UNION {[K -> ValuesOf(w)] :
                                K \in {L \in SUBSET KeysOf(w) : Cardinality(L) \in 1 .. MaxKeys}}]

PutConfig(h, body) ==
    /\ Serving /\ put[h] = NoPut /\ Idle(h)
    /\ (Quiet /\ NoPuts) \/ "together" \in world.may
    /\ put' = [put EXCEPT ![h] = [NoPut EXCEPT !.at = "apply", !.todo = body, !.body = But(body, "url")]]
    /\ UNCHANGED <<limitsVars, conf, disk, torn, loading, accepted, unsaved, touched>>

ApplyOne(h, k) ==
    /\ put[h].at = "apply" /\ MayApply(k, put[h].todo)
    /\ Applicable(k, put[h].todo[k])
    /\ ApplyKey(k, put[h].todo[k])
    /\ put' = [put EXCEPT ![h].todo = But(@, k)]
    /\ UNCHANGED <<storeVars, budget, req, untold, overlapped, overdrawn, world>>
    /\ UNCHANGED <<disk, torn, loading, accepted, unsaved, touched>>

\* A key that cannot be applied ends the request; those before it stay applied.
Refuse(h, k) ==
    /\ put[h].at = "apply" /\ MayApply(k, put[h].todo)
    /\ Refusable(k, put[h].todo[k])
    /\ put' = [put EXCEPT ![h] = NoPut]
    /\ touched' = TRUE
    /\ UNCHANGED <<limitsVars, conf, disk, torn, loading, accepted, unsaved>>

FileMayFail == "badfile" \in world.may

\* persistConfig reads the file, and takes one it cannot read or parse for an empty one.
ReadFile(h) ==
    /\ put[h].at = "apply" /\ put[h].todo = Empty
    /\ \E file \in {IF torn THEN Empty ELSE disk} \cup (IF FileMayFail THEN {Empty} ELSE {}) :
            put' = [put EXCEPT ![h].at = "truncate", ![h].file = file]
    /\ UNCHANGED <<limitsVars, conf, disk, torn, loading, accepted, unsaved, touched>>

\* The directory cannot be made or the file not opened: that is logged, and the request
\* succeeds.
NotWritten(h) ==
    /\ FileMayFail /\ put[h].at = "truncate"
    /\ accepted' = Over(put[h].body, accepted)
    /\ unsaved' = unsaved \cup DOMAIN put[h].body
    /\ put' = [put EXCEPT ![h] = NoPut]
    /\ UNCHANGED <<limitsVars, conf, disk, torn, loading, touched>>

\* os.WriteFile truncates and then writes.
Truncate(h) ==
    /\ put[h].at = "truncate"
    /\ torn' = TRUE
    /\ put' = [put EXCEPT ![h].at = "write"]
    /\ UNCHANGED <<limitsVars, conf, disk, loading, accepted, unsaved, touched>>

\* The write fails halfway: that is logged too, and what the file had is lost.
WrittenInPart(h) ==
    /\ FileMayFail /\ put[h].at = "write"
    /\ accepted' = Over(put[h].body, accepted)
    /\ unsaved' = DOMAIN accepted'
    /\ put' = [put EXCEPT ![h] = NoPut]
    /\ UNCHANGED <<limitsVars, conf, disk, torn, loading, touched>>

\* The settings that a written file lacks: those of a file that could not be read.
Missing(h) == IF FileMayFail THEN DOMAIN accepted \ DOMAIN put[h].file ELSE {}

\* Mutant: only the keys of the request are written.
WriteFileUnmerged(h) ==
    /\ put[h].at = "write"
    /\ torn' = FALSE
    /\ disk' = put[h].body
    /\ accepted' = Over(put[h].body, accepted)
    /\ unsaved' = (unsaved \cup Missing(h)) \ DOMAIN put[h].body
    /\ put' = [put EXCEPT ![h] = NoPut]
    /\ UNCHANGED <<limitsVars, conf, loading, touched>>

WriteFile(h) ==
    /\ put[h].at = "write"
    /\ torn' = FALSE
    /\ disk' = Over(put[h].body, put[h].file)
    /\ accepted' = Over(put[h].body, accepted)
    /\ unsaved' = (unsaved \cup Missing(h)) \ DOMAIN put[h].body
    /\ put' = [put EXCEPT ![h] = NoPut]
    /\ UNCHANGED <<limitsVars, conf, loading, touched>>

\* PUT /providers changes memory alone.
Switch(value) ==
    /\ "switch" \in world.may /\ Serving
    /\ conf' = [conf EXCEPT ![Provider] = value]
    /\ touched' = TRUE
    /\ UNCHANGED <<limitsVars, disk, torn, put, loading, accepted, unsaved>>

-----------------------------------------------------------------------------
(* The daemon stops or crashes, and starts: the proxy is restored from the store,  *)
(* the settings are the environment's, and config.json is laid over them.          *)

Restart ==
    /\ Serving
    /\ \/ "restart" \in world.may /\ Quiet /\ NoPuts
       \/ "crash" \in world.may
    /\ RestoreProxy
    /\ keep' = FALSE
    /\ conf' = [k \in StoredKeys |-> Unset]
    /\ put' = [h \in Handlers |-> NoPut]
    /\ \E readable \in IF FileMayFail THEN BOOLEAN ELSE {TRUE} :
            /\ loading' = IF torn \/ ~readable THEN Empty ELSE disk
            /\ accepted' = [k \in IF readable THEN DOMAIN accepted \ unsaved ELSE {} |-> accepted[k]]
    /\ unsaved' = {}
    /\ touched' = FALSE
    /\ UNCHANGED <<disk, torn>>

LoadKey(k) ==
    /\ MayApply(k, loading)
    /\ Applicable(k, loading[k])
    /\ ApplyKey(k, loading[k])
    /\ loading' = But(loading, k)
    /\ UNCHANGED <<storeVars, budget, req, untold, overlapped, overdrawn, world>>
    /\ UNCHANGED <<disk, torn, put, accepted, unsaved, touched>>

\* LoadPersistedConfig logs the error and leaves the remaining keys.
LoadFails(k) ==
    /\ MayApply(k, loading)
    /\ Refusable(k, loading[k])
    /\ loading' = Empty
    /\ UNCHANGED <<limitsVars, conf, disk, torn, put, accepted, unsaved, touched>>

ServeLimits(h) ==
    /\ Serving /\ put[h] = NoPut
    /\ Idle(h) => NoPuts \/ "together" \in world.may
    /\ Serve(h)
    /\ UNCHANGED configVars

ServeConfig(h) ==
    \/ \E body \in Bodies[world] : PutConfig(h, body)
    \/ \E k \in Keys : ApplyOne(h, k) \/ Refuse(h, k)
    \/ ReadFile(h) \/ NotWritten(h) \/ Truncate(h) \/ WriteFile(h) \/ WrittenInPart(h)

Next ==
    \/ \E h \in Handlers : ServeLimits(h) \/ ServeConfig(h)
    \/ Serving /\ NoPuts /\ (\E c \in Containers : Remove(c) \/ Use(c)) /\ UNCHANGED configVars
    \/ \E value \in BOOLEAN : Switch(value)
    \/ Restart
    \/ \E k \in Keys : LoadKey(k) \/ LoadFails(k)

Spec == Init /\ [][Next]_vars

-----------------------------------------------------------------------------
(* Properties. *)

TypeOK ==
    /\ LimitsTypeOK
    /\ conf \in [StoredKeys -> BOOLEAN \cup {Unset}]
    /\ IsSettings(disk, BOOLEAN) /\ IsSettings(loading, BOOLEAN) /\ IsSettings(accepted, BOOLEAN)
    /\ torn \in BOOLEAN /\ unsaved \subseteq Keys
    /\ \A h \in Handlers :
            /\ put[h].at \in {"none", "apply", "truncate", "write"}
            /\ IsSettings(put[h].todo, BOOLEAN \cup {Wrong})
            /\ IsSettings(put[h].body, BOOLEAN \cup {Wrong})
            /\ IsSettings(put[h].file, BOOLEAN)
    /\ touched \in BOOLEAN

InForce(k) == IF k = "keep" THEN keep ELSE conf[k]

Settled == Serving /\ Quiet /\ NoPuts /\ ~touched

\* Every setting whose PUT succeeded is in force, before and after a restart, when
\* requests come one at a time, unless memory was changed by a request that stores
\* nothing.  A PUT whose write fails succeeds too: its settings are in force until the
\* daemon stops, as is what the file had when a write is cut off or follows a read that
\* failed; and none outlives a start that cannot read the file.  The mode's own check at
\* start must not fail: the limits are kept consistent all along, or the mode is never
\* changed, or never on.
AcceptedInForce ==
    /\ Settled
    /\ \/ world.may \subseteq {"host", "register", "mode", "plain", "restart"}
       \/ world.may \subseteq {"host", "plain", "refuse", "switch", "restart"}
       \/ world.may \subseteq {"host", "plain", "refuse", "switch", "restart", "badfile"} /\ ~world.keep
    => \A k \in DOMAIN accepted : InForce(k) = accepted[k]

\* README: PUT /config updates the configuration, persisted to disk.
ConfigDurable ==
    Settled => \A k \in DOMAIN accepted : InForce(k) = accepted[k]
=============================================================================
