-------------------------- MODULE MCOllamaQueue --------------------------
(* Instances of OllamaQueue for TLC. *)
EXTENDS OllamaQueue, TLC

CONSTANTS r1, r2, r3, c1, c2

\* Two requests of one container and one of another.
OwnerOf == r1 :> c1 @@ r2 :> c1 @@ r3 :> c2

\* Two requests of one container.
BothOfOne == r1 :> c1 @@ r2 :> c1
=============================================================================
