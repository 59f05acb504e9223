----------------------------- MODULE MCDataPath ------------------------------
(* DataPath for TLC; the bounds are in the cfg files.                      *)
EXTENDS DataPath
=============================================================================
