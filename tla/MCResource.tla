------------------------------ MODULE MCResource ------------------------------
(* HmcudaResource for TLC; pointers, and stubs, are interchangeable.        *)
EXTENDS HmcudaResource, TLC

Symmetry == Permutations(Pointers) \cup Permutations(Stubs)
==============================================================================
