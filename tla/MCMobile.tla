------------------------------ MODULE MCMobile ------------------------------
(***************************************************************************)
(* A small instance of Mobile for TLC.                                     *)
(***************************************************************************)
EXTENDS Mobile
=============================================================================
