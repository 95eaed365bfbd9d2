----------------------------- MODULE MCSpending -----------------------------
(* Instances of Spending for TLC. *)
EXTENDS Spending, TLC

CONSTANTS h, c1, c2, s1

\* A limit of the host and one of a segment that are reached.
SmallLimits == h :> 1 @@ s1 :> 1
World(who, may, most) == [who |-> who, may |-> may, most |-> most]

\* Small worlds, each about one cause of trouble.
SmallWorlds ==
    {World({c1}, {"limit", "ollama"}, 6), World({c1}, {"limit", "restart"}, 3),
     World({c1}, {"again", "remove", "restart"}, 2), World({c1}, {"scope", "remove"}, 3),
     World({c1}, {"scope", "unassign"}, 3), World({c1, c2}, {"remove"}, 1),
     World({c1, c2}, {"restart"}, 2)}

\* A restart of the daemon while a segment is over its limit.
RestartedScopes == {World({c1}, {"scope", "restart"}, 3)}
=============================================================================
