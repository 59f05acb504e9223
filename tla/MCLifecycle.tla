----------------------------- MODULE MCLifecycle -----------------------------
(* Lifecycle for TLC; the bounds are in the cfg files.                     *)
EXTENDS Lifecycle
=============================================================================
