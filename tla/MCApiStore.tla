----------------------------- MODULE MCApiStore -----------------------------
(* ApiStore for TLC.                                                       *)
EXTENDS ApiStore
=============================================================================
