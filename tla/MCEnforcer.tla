----------------------------- MODULE MCEnforcer -----------------------------
(***************************************************************************)
(* Small instances of Enforcer for TLC.                                    *)
(***************************************************************************)
EXTENDS Enforcer, TLC

\* For runs that check invariants only.
Symmetry == Permutations(Inodes) \cup Permutations(Writers)
=============================================================================
