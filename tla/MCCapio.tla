------------------------------- MODULE MCCapio -------------------------------
(* Instances of Capio for TLC.                                             *)
EXTENDS Capio, TLC

CONSTANTS t1, t2, p1, p2

\* Every process makes its calls from one thread, as the user library does.
OneProc       == p1 :> p1
OneThreadEach == p1 :> p1 @@ p2 :> p2
\* One process, two threads.
TwoThreads    == t1 :> p1 @@ t2 :> p1

Symmetry  == Permutations(Objs) \cup Permutations(Addrs)
SymmetryP == Symmetry \cup Permutations(Procs)
=============================================================================
