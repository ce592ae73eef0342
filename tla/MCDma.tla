-------------------------------- MODULE MCDma --------------------------------
(* HmcudaDma for TLC; threads are interchangeable.                          *)
EXTENDS HmcudaDma, TLC

Symmetry == Permutations(Threads)
==============================================================================
