------------------------------ MODULE MCChannel ------------------------------
(* HmcudaChannel for TLC.                                                     *)
EXTENDS HmcudaChannel
==============================================================================
