------------------------------ MODULE MCWatch ------------------------------
(***************************************************************************)
(* Watch for TLC, with an open target, a hard block and a local fault.     *)
(***************************************************************************)
EXTENDS Watch

MCPaths == {"OK", "IP_BLOCKING", "LOCAL_ISSUE"}
=============================================================================
