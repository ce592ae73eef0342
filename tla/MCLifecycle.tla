------------------------------ MODULE MCLifecycle -----------------------------
(* HmcudaLifecycle for TLC: a process of two threads and one of one.         *)
EXTENDS HmcudaLifecycle, TLC

CONSTANTS t1, t2, t3, p1, p2

Belongs == t1 :> p1 @@ t2 :> p1 @@ t3 :> p2
=============================================================================
