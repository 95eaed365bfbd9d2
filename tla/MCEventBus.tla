----------------------------- MODULE MCEventBus -----------------------------
(* Instances of EventBus for TLC. *)
EXTENDS EventBus, TLC

Kind(type, container) == [type |-> type, container |-> container]
Filter(types, containers) == [types |-> types, containers |-> containers]

Usage == Kind("usage_update", "c1")
Frozen == Kind("container_frozen", "c2")
Everything == Filter({}, {})
FrozenOnly == Filter({"container_frozen"}, {"c2"})

BothKinds == {Usage, Frozen}
AllFilters == {Everything, FrozenOnly}

\* One client wants all events, the other one kind; three events are too many for a channel.
AsksOf == "a" :> {Everything} @@ "b" :> {FrozenOnly}
EmitsOf == "p" :> {Usage} @@ "q" :> {Frozen}
FewEvents == "p" :> 2 @@ "q" :> 1
=============================================================================
