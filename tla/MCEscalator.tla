---------------------------- MODULE MCEscalator ----------------------------
(***************************************************************************)
(* Small instances of Escalator for TLC.                                   *)
(***************************************************************************)
EXTENDS Escalator

MCDomains == {1, 2}
MCOneDomain == {1}

\* An outcome for every domain, or for the one there is.
MCTapEvents ==
  {[kind |-> "server_hello", domain |-> d, bad |-> FALSE] : d \in MCDomains}
MCHello == {[kind |-> "server_hello", domain |-> 1, bad |-> FALSE]}
=============================================================================
