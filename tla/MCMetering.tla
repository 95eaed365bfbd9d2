----------------------------- MODULE MCMetering -----------------------------
(* Instances of Metering for TLC. *)
EXTENDS Metering, TLC

CONSTANTS c1, c2

\* Containers differ in nothing.
Alike == Permutations(Containers)
=============================================================================
