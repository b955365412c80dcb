----------------------------- MODULE MCKeyStore -----------------------------
(***************************************************************************)
(* A small instance of KeyStore for TLC: three processes for five runs,    *)
(* which overlap in every way, and three keys: of runs one after another   *)
(* one may be lost, one stored in part and one used, and runs at a time    *)
(* may generate all three.                                                 *)
(***************************************************************************)
EXTENDS KeyStore
=============================================================================
