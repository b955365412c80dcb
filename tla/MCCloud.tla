------------------------------ MODULE MCCloud ------------------------------
(***************************************************************************)
(* Three pushes of two measurements, by two keys, for TLC.                 *)
(***************************************************************************)
EXTENDS Cloud, TLC

CONSTANTS P1, P2, P3

MCPushes == {P1, P2, P3}

\* Pushes are interchangeable.
Symmetry == Permutations(MCPushes)
=============================================================================
