--------------------------- MODULE MCCapioSession ----------------------------
(* Instances of CapioSession for TLC.                                      *)
EXTENDS CapioSession, TLC

CONSTANTS p1, p2

OneProc       == p1 :> p1
OneThreadEach == p1 :> p1 @@ p2 :> p2
=============================================================================
