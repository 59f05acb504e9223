------------------------------- MODULE MCMcdi --------------------------------
(* Mcdi for TLC; the bounds are in the cfg files.                          *)
EXTENDS Mcdi
=============================================================================
