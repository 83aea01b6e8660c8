----------------------------- MODULE MCKubelet -----------------------------
(* Kubelet for TLC.                                                        *)
EXTENDS Kubelet
=============================================================================
