------------------------------- MODULE MCLive -------------------------------
(***************************************************************************)
(* A small instance of Live for TLC: two domains whose writings may        *)
(* overlap.                                                                *)
(***************************************************************************)
EXTENDS Live, TLC

MCDomains == {1, 2}

\* An outcome for each domain.
MCHello ==
  {[kind |-> "server_hello", domain |-> d, bad |-> FALSE] : d \in MCDomains}

Symmetry == Permutations(Goroutines) \cup Permutations(Inodes)
=============================================================================
