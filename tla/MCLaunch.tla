------------------------------- MODULE MCLaunch -------------------------------
(* HmcudaLaunch for TLC.                                                     *)
EXTENDS HmcudaLaunch, TLC

CONSTANTS t1, t2, p1, p2

Belongs == t1 :> p1 @@ t2 :> p2

(* The processes may change places if their threads do.                     *)
Swap == t1 :> t2 @@ t2 :> t1 @@ p1 :> p2 @@ p2 :> p1
Symmetric == Permutations(Grids) \cup Permutations(Images) \cup {Swap}
=============================================================================
