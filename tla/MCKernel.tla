------------------------------ MODULE MCKernel ------------------------------
(* Kernel for TLC; the values of the constants are in the configurations.  *)
EXTENDS Kernel
=============================================================================
