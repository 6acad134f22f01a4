---------------------------- MODULE MCAdaptiveRpc ----------------------------
(* AdaptiveRpc with one to three calls. *)
EXTENDS AdaptiveRpc
==============================================================================
