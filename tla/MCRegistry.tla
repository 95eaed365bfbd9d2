----------------------------- MODULE MCRegistry -----------------------------
(* Instances of Registry for TLC. *)
EXTENDS Registry, TLC

CONSTANTS c1, c2, s1, s2, h1, h2

\* The first two listeners want the same socket.
SharedSocket == "l1" :> "p" @@ "l2" :> "p" @@ "l3" :> "q"

\* The goroutines that serve requests differ in nothing, nor do the segments.
Alike == Permutations(Handlers) \cup Permutations(Segments)

World(who, may) == [who |-> who, may |-> may]

\* Small worlds, each about a few kinds of request.
SmallWorlds ==
    {World({c1}, {"together", "register", "again", "remove", "fail", "restart"}),
     World({c1}, {"together", "register", "assign", "segments", "limits", "remove"}),
     World({c1, c2}, {"together", "register", "assign", "segments"}),
     World({c1, c2}, {"register", "again", "remove", "assign", "segments", "limits", "fail", "restart"}),
     World({c1, c2}, {"together", "register", "clone", "remove", "fail"}),
     World({c1, c2}, {"together", "register", "remove", "freeze"}),
     World({c1, c2}, {"register", "again", "assign", "segments", "freeze"}),
     World({}, {"together", "segments", "limits", "config"}),
     World({c1}, {"together", "segments", "listeners", "fail", "restart"}),
     World({c1, c2}, {"register", "remove", "addresses", "restart"})}
=============================================================================
