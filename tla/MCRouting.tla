------------------------------- MODULE MCRouting ------------------------------
(* HmcudaRouting for TLC.                                                    *)
EXTENDS HmcudaRouting, TLC

Symmetric == Permutations(Device)
=============================================================================
