------------------------------- MODULE MCGate -------------------------------
(* Instances of Gate for TLC. *)
EXTENDS Gate, TLC

CONSTANTS r1, r2, r3

AllBounds == {"ConnectTimeout", "AttemptDeadline", "None"}

\* Requests are interchangeable: no definition names one.
Symmetry == Permutations(Requests)
===========================================================================
