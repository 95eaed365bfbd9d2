------------------------------ MODULE MCConfig ------------------------------
(* Instances of Config for TLC. *)
EXTENDS Config, TLC

CONSTANTS c1, c2, h1, h2

World(may, managed, keeps, most) == [may |-> may, managed |-> managed, keep |-> keeps, host |-> most]

Values == {-1, 1, 2}

\* The goroutines that serve requests differ in nothing.
AnyHandler == Permutations(Handlers)

\* One request at a time, or two at once; each world about a few kinds of change.
SmallWorlds ==
    {World({"host", "mode", "plain", "restart"}, {c1, c2}, FALSE, 0),
     World({"host", "remove", "mode", "crash"}, {c1, c2}, TRUE, 2),
     World({"plain", "refuse", "switch", "restart"}, {}, FALSE, 0),
     World({"url", "crash", "together"}, {}, FALSE, 0),
     World({"together", "clone"}, {c1}, TRUE, 1),
     World({"together", "remove"}, {c1}, TRUE, 2),
     World({"together", "register", "host", "grow", "restart"}, {c1}, FALSE, 0),
     World({"host", "grow", "negative"}, {c1}, TRUE, 1),
     World({"fail", "host", "register", "clone", "mode", "restart"}, {c1}, TRUE, 1),
     World({"plain", "badfile", "refuse", "restart"}, {}, FALSE, 0)}

\* The mode is on, and values may be below zero.
NegativeValues == {World({"negative"}, {c1, c2}, TRUE, 1)}

\* Settings of the Ollama queue, and others, before a restart.
OllamaSettings == {World({"url", "plain", "restart"}, {}, FALSE, 0)}
=============================================================================
