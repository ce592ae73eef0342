------------------------------ MODULE MCHostMem ------------------------------
(* HmcudaHostMem for TLC; threads are interchangeable.                      *)
EXTENDS HmcudaHostMem, TLC

Symmetry == Permutations(Threads)
=============================================================================
