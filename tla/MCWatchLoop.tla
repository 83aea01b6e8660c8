---------------------------- MODULE MCWatchLoop ----------------------------
(* WatchLoop for TLC: the two watches every component of the control plane *)
(* opens.                                                                  *)
EXTENDS WatchLoop
=============================================================================
