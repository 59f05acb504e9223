------------------------------- MODULE MCBench -------------------------------
(* Bench for TLC; the bounds are in the cfg files.                         *)
EXTENDS Bench
=============================================================================
